---- MODULE Spec2Model ----
(***************************************************************************)
(* Extraction pipeline of the cadastral SOAP integration:                  *)
(*   service/cadastro_service.py  CadastroService (orchestrator)           *)
(*   service/soap_client.py       CadastralSOAPClient._call (retry loop)   *)
(*   service/cache_service.py     CacheService (one JSON file per key)     *)
(*   service/database_service.py  DatabaseService (loader of snapshots)     *)
(*   repository/database_repository.py  DatabaseRepository (upsert)        *)
(*   model/data_models.py         normalize_int_field                      *)
(*   service/statistics_service.py  StatisticsService (gap analysis)       *)
(*                                                                         *)
(* Python values are tagged records [t |-> type, v |-> payload]; a dict is *)
(* a function from key strings to values.  An interval key "a-b" is kept   *)
(* as the pair <<a, b>>: the f-string of two integers is injective.        *)
(***************************************************************************)
EXTENDS Integers, Sequences, FiniteSets, TLC

(* ------------------------------ bounds -------------------------------- *)
\* highest business code the source system holds
MaxCode == 4
\* app_config.max_interval_size (settings default 100, scaled down)
MaxIntervalSize == 2
\* app_config.save_interval (settings default 1000, scaled down)
SaveInterval == 2
\* largest value of settings.soap.max_retries that is explored
MaxRetries == 2
\* number of extraction runs over one cache directory
MaxRuns == 2
\* seconds the wall clock may advance
MaxClock == 1

(* --------------------------- Python values ---------------------------- *)
PyNone == [t |-> "none", v |-> ""]
PyStr(s) == [t |-> "str", v |-> s]
\* floats are kept in hundredths
PyFloat(n) == [t |-> "float", v |-> n]
PyInt(n) == [t |-> "int", v |-> n]
PyList(q) == [t |-> "list", v |-> q]
PyDict(f) == [t |-> "dict", v |-> f]

\* bool(x) of Python
Truthy(x) ==
    CASE x.t = "none" -> FALSE
      [] x.t = "str" -> x.v # ""
      [] x.t = "float" -> x.v # 0
      [] x.t = "int" -> x.v # 0
      [] x.t = "list" -> Len(x.v) > 0
      [] x.t = "dict" -> DOMAIN x.v # {}

(* ------------------- JSON files (json.dump / json.load) --------------- *)
RECURSIVE JsonDump(_)
\* json.dump: Python value -> JSON document
JsonDump(x) ==
    CASE x.t = "none" -> [j |-> "null", c |-> ""]
      [] x.t = "str" -> [j |-> "string", c |-> x.v]
      [] x.t = "float" -> [j |-> "number", c |-> x.v]
      [] x.t = "int" -> [j |-> "integer", c |-> x.v]
      [] x.t = "list" -> [j |-> "array", c |-> [i \in DOMAIN x.v |-> JsonDump(x.v[i])]]
      [] x.t = "dict" -> [j |-> "object", c |-> [k \in DOMAIN x.v |-> JsonDump(x.v[k])]]

RECURSIVE JsonLoad(_)
\* json.load: JSON document -> Python value
JsonLoad(d) ==
    CASE d.j = "null" -> PyNone
      [] d.j = "string" -> PyStr(d.c)
      [] d.j = "number" -> PyFloat(d.c)
      [] d.j = "integer" -> PyInt(d.c)
      [] d.j = "array" -> PyList([i \in DOMAIN d.c |-> JsonLoad(d.c[i])])
      [] d.j = "object" -> PyDict([k \in DOMAIN d.c |-> JsonLoad(d.c[k])])

(* ----------------------------- the source ----------------------------- *)
\* what the remote system holds for a code, as the item the SOAP client
\* hands over (leaf dates already passed through the wire-level normalizer)
RawCadastro(c) ==
    CASE c % 4 = 1 -> PyDict([k \in {"codigo_cadastro", "data_cadastro", "area_terreno"} |->
                               CASE k = "codigo_cadastro" -> PyStr(ToString(c))
                                 [] k = "data_cadastro" -> PyStr("31/02/2023")
                                 [] k = "area_terreno" -> PyStr("123,45")])
      [] c % 4 = 2 -> PyDict([k \in {"codigo_cadastro", "data_cadastro"} |->
                               CASE k = "codigo_cadastro" -> PyStr(ToString(c))
                                 [] k = "data_cadastro" -> PyList(<<PyStr("2023-12-31")>>)])
      [] c % 4 = 3 -> PyDict([k \in {"codigo_cadastro", "data_cadastro", "area_terreno", "enderecos"} |->
                               CASE k = "codigo_cadastro" -> PyStr(ToString(c))
                                 [] k = "data_cadastro" -> PyStr("")
                                 [] k = "area_terreno" -> PyStr("abc")
                                 [] k = "enderecos" -> PyNone])
      [] OTHER -> PyDict([k \in {"codigo_cadastro", "data_cadastro"} |->
                               CASE k = "codigo_cadastro" -> PyStr(ToString(c))
                                 [] k = "data_cadastro" -> PyStr("2023-12-31")])

\* codes the remote system has a record for
CodigosExistentes == 1..MaxCode

RECURSIVE ItensDoIntervalo(_, _)
\* the items of the codes a..b, ascending
ItensDoIntervalo(a, b) ==
    IF a > b THEN <<>>
    ELSE (IF a \in CodigosExistentes THEN <<RawCadastro(a)>> ELSE <<>>)
         \o ItensDoIntervalo(a + 1, b)

(* ------------------- normalizers of cadastro_service ------------------ *)
\* datetime.strptime(s, "%d/%m/%Y").strftime("%Y-%m-%d") on the strings the
\* source uses; ok = FALSE is the ValueError of a string that is no date
StrptimeBR(s) ==
    CASE s = "31/12/2023" -> [ok |-> TRUE, iso |-> "2023-12-31"]
      [] s = "01/02/2024" -> [ok |-> TRUE, iso |-> "2024-02-01"]
      [] OTHER -> [ok |-> FALSE, iso |-> s]

\* _converter_data_brasileira: exc = TRUE is the TypeError strptime raises
\* for a value that is no string
ConverterDataBrasileira(x) ==
    IF ~Truthy(x) THEN [exc |-> FALSE, val |-> PyNone]
    ELSE IF x.t # "str" THEN [exc |-> TRUE, val |-> x]
    ELSE [exc |-> FALSE, val |-> PyStr(StrptimeBR(x.v).iso)]

\* str(x).replace(',', '.') on the strings the source uses
ReplaceComma(s) ==
    CASE s = "123,45" -> "123.45"
      [] s = "10,5" -> "10.5"
      [] OTHER -> s

\* float(s): ok = FALSE is ValueError
FloatOf(s) ==
    CASE s = "123.45" -> [ok |-> TRUE, n |-> 12345]
      [] s = "10.5" -> [ok |-> TRUE, n |-> 1050]
      [] s = "7" -> [ok |-> TRUE, n |-> 700]
      [] OTHER -> [ok |-> FALSE, n |-> 0]

\* float(str(x).replace(',', '.')) with the except branch: None on failure
NormalizarArea(x) ==
    CASE x.t = "float" -> x
      [] x.t = "str" -> (IF FloatOf(ReplaceComma(x.v)).ok
                         THEN PyFloat(FloatOf(ReplaceComma(x.v)).n) ELSE PyNone)
      [] OTHER -> PyNone

CamposArea == {"area_terreno", "area_construida", "area_construida_averbada", "area_total_construida"}
CamposLista == {"proprietariosbci", "enderecos", "testadas", "caracteristicas", "subreceitas", "zoneamentos"}

\* _processar_cadastro: the normalized record, or None for an item that is
\* no mapping or whose normalization raised
ProcessarCadastro(raw) ==
    IF raw.t # "dict" THEN PyNone
    ELSE LET d == raw.v
             temData == "data_cadastro" \in DOMAIN d
             conv == IF temData THEN ConverterDataBrasileira(d["data_cadastro"])
                     ELSE [exc |-> FALSE, val |-> PyNone]
             campos == (DOMAIN d) \cup CamposLista
         IN IF conv.exc THEN PyNone
            ELSE PyDict([k \in campos |->
                    IF k = "data_cadastro" THEN conv.val
                    ELSE IF k \in CamposArea /\ Truthy(d[k]) THEN NormalizarArea(d[k])
                    ELSE IF k \in CamposLista /\ (k \notin DOMAIN d \/ d[k].t = "none")
                         THEN PyList(<<>>)
                    ELSE d[k]])

RECURSIVE ProcessarLista(_)
\* the loop of _buscar_por_intervalo over cadastros_raw: falsy results dropped
ProcessarLista(q) ==
    IF q = <<>> THEN <<>>
    ELSE (IF Truthy(ProcessarCadastro(Head(q))) THEN <<ProcessarCadastro(Head(q))>> ELSE <<>>)
         \o ProcessarLista(Tail(q))

(* ------------------------------ intervals ----------------------------- *)
PyMin(a, b) == IF a <= b THEN a ELSE b

RECURSIVE RangeFrom(_, _, _)
\* range(i, stop, step) for step # 0
RangeFrom(i, stop, step) ==
    IF (step > 0 /\ i >= stop) \/ (step < 0 /\ i <= stop) THEN <<>>
    ELSE <<i>> \o RangeFrom(i + step, stop, step)

\* variant of _gerar_intervalos: range(inicio, fim, tamanho) stops one early
GerarIntervalosSemUltimo(inicio, fim, tamanho) ==
    LET r == RangeFrom(inicio, fim, tamanho)
    IN [n \in DOMAIN r |-> <<r[n], PyMin(r[n] + tamanho - 1, fim)>>]

\* _gerar_intervalos (tamanho # 0; range raises ValueError for step 0)
GerarIntervalos(inicio, fim, tamanho) ==
    LET r == RangeFrom(inicio, fim + 1, tamanho)
    IN [n \in DOMAIN r |-> <<r[n], PyMin(r[n] + tamanho - 1, fim)>>]

\* variant of the clamp: the requested size is used as given
ClampSizeAusente(size) == size

\* lines 55-56 of extrair_todos_cadastros
ClampSize(size) == IF size > MaxIntervalSize THEN MaxIntervalSize ELSE size


(* ------------------------------- state -------------------------------- *)
VARIABLES
    retry_attempts,      \* CadastralSOAPClient.retry_attempts (settings.soap.max_retries)
    cache,               \* data/cache: interval key -> JSON document of its file
    files,               \* data/: snapshot file name -> JSON document
    now,                 \* wall clock, in seconds
    runs,                \* runs of extrair_todos_cadastros started so far
    pc,                  \* position of the orchestrator
    entrada,             \* arguments of the current run
    intervalos,          \* list computed by _gerar_intervalos
    idx,                 \* 1-based position of the for loop in intervalos
    todos_cadastros,     \* running result list
    cadastros_intervalo, \* what _buscar_por_intervalo returned for intervalos[idx]
    tracker,             \* ProgressTracker: requisicoes_realizadas, inicio_tempo
    resultado,           \* what extrair_todos_cadastros returned
    callOps,             \* _call: ops, the primary name then the fallbacks
    callRound,           \* _call: 1-based round of the retry loop
    callOp,              \* _call: 1-based position in ops
    last_err,            \* _call: last_err
    callState,           \* _call: "idle", "running", "sleeping", "returned" or "raised"
    callErro,            \* the exception _call raised
    callLog,             \* history: attempts and sleeps of the current _call
    fetchLog,            \* history: general-search fetches of the run
    visitLog,            \* history: intervals handed to _buscar_por_intervalo
    cacheLog,            \* history: salvar_cache calls of the run
    saveLog,             \* history: snapshot writes attempted in the run
    abortLog,            \* history: how the run left the try block
    pendentes,           \* history: keys whose latest fetch failed, over all runs
    putLog,              \* history: key -> list last handed to salvar_cache
    lido,                \* history: the latest carregar_cache call and its result
    banco,               \* PostgreSQL: the committed tables
    sessao,              \* SQLAlchemy session: its transaction's view of the tables
    seq,                 \* sequence behind cadastros_imobiliarios.id
    lote,                \* _processar_lote_cadastros: cadastros
    indice,              \* _processar_lote_cadastros: 1-based position of the loop
    contagem,            \* _processar_lote_cadastros: inseridos, atualizados, erros
    lpc,                 \* position of the loader
    retorno,             \* what processar_arquivo_json returned
    lotes,               \* files handed to the loader so far
    opLog,               \* history: what the loop did with each record of the batch
    antes,               \* history: the committed tables when the batch began
    erros_detalhes,      \* _processar_lote_cadastros: erros_detalhes
    completo,            \* buscar_cadastro_completo: position, data fetched, result
    puro                 \* the latest call of a pure function: name, argument, result

vars == <<retry_attempts, cache, files, now, runs, pc, entrada, intervalos, idx,
          todos_cadastros, cadastros_intervalo, tracker, resultado, callOps, callRound,
          callOp, last_err, callState, callErro, callLog, fetchLog, visitLog,
          cacheLog, saveLog, abortLog, pendentes, putLog, lido, banco, sessao, seq,
          lote, indice, contagem, lpc, retorno, lotes, opLog, antes, erros_detalhes,
          completo, puro>>

envVars == <<cache, files, now, runs>>
runVars == <<entrada, intervalos, idx, todos_cadastros, cadastros_intervalo, tracker, resultado>>
callVars == <<retry_attempts, callOps, callRound, callOp, last_err, callState, callErro, callLog>>
logVars == <<fetchLog, visitLog, cacheLog, saveLog, abortLog>>
cacheVars == <<putLog, lido>>
dbVars == <<banco, sessao, seq, lote, indice, contagem, lpc, retorno, lotes, opLog, antes,
           erros_detalhes>>
auxVars == <<completo, puro>>

\* the argument triples <<codigo_inicio, codigo_fim, intervalo_size>> a run
\* is started with: a size above the maximum, a size of one, a zero size,
\* a negative size
Entradas == {<<1, MaxCode, MaxIntervalSize + 1>>, <<2, MaxCode, 1>>, <<1, 0, 0>>, <<2, 0, -1>>}

\* what one attempt of _call can raise: getattr on a missing operation, a
\* zeep Fault, any other transport exception, the SOAPClientError that
\* _parse_soap_response raises for invalid XML
Falhas == {"AttributeError", "SOAPFault", "Exception", "SOAPClientError"}

\* the operation lists _call is entered with: buscar_itbi (no fallback),
\* buscar_cadastro_geral (one), buscar_subreceitas (two)
OpsItbi == <<"buscaItbiCadastroImobiliario">>
OpsCadastroGeral == <<"buscaCadastroImobiliarioGeral", "buscaCadastroImobiliarioGeralBCI">>
OpsSubReceitas == <<"buscaSubReceitas", "buscaSubreceitaBCI", "buscaSubReceitaBCI">>

NenhumErro == [tipo |-> "None", op |-> ""]
NenhumaExcecao == [tipo |-> "None", causa |-> NenhumErro]
NenhumArquivo == [nome |-> "None", ts |-> 0, sufixo |-> ""]
SemResultado == [pendente |-> TRUE]
NadaLido == [feito |-> FALSE, chave |-> <<0, 0>>, valor |-> PyNone]

InitRun ==
    /\ cache = <<>>
    /\ now = 0
    /\ runs = 0
    /\ pc = "idle"
    /\ entrada = [inicio |-> 0, fim |-> 0, tamanho |-> 0]
    /\ intervalos = <<>>
    /\ idx = 1
    /\ todos_cadastros = <<>>
    /\ cadastros_intervalo = <<>>
    /\ tracker = [requisicoes_realizadas |-> 0, inicio_tempo |-> 0]
    /\ resultado = SemResultado
    /\ fetchLog = <<>>
    /\ visitLog = <<>>
    /\ cacheLog = <<>>
    /\ saveLog = <<>>
    /\ abortLog = <<>>
    /\ pendentes = {}

\* the data directory holds no snapshot yet
InitFiles == files = <<>>

TabelasVazias == [cadastros |-> {}, filhos |-> {}, logs |-> <<>>]
SemRetorno == [pendente |-> TRUE]

\* the loader before its first file, on empty tables
InitDb ==
    /\ banco = TabelasVazias
    /\ sessao = [ativa |-> TRUE, t |-> TabelasVazias]
    /\ seq = 0
    /\ lote = <<>>
    /\ indice = 1
    /\ contagem = [inseridos |-> 0, atualizados |-> 0, erros |-> 0]
    /\ lpc = "idle"
    /\ retorno = SemRetorno
    /\ lotes = 0
    /\ opLog = <<>>
    /\ antes = TabelasVazias
    /\ erros_detalhes = <<>>

SemCompleto == [pc |-> "idle", codigo |-> "", principal |-> PyNone, modulo |-> 1,
                dados |-> <<>>, chamadas |-> <<>>, retorno |-> PyNone]
NadaAplicado == [f |-> "", x |-> PyNone, y |-> PyNone]

\* no record was looked up and no helper was applied yet
InitAux ==
    /\ completo = SemCompleto
    /\ puro = NadaAplicado

InitCache ==
    /\ putLog = <<>>
    /\ lido = NadaLido

InitCall ==
    /\ callOps = OpsCadastroGeral
    /\ callRound = 1
    /\ callOp = 1
    /\ last_err = NenhumErro
    /\ callState = "idle"
    /\ callErro = NenhumaExcecao
    /\ callLog = <<>>

\* the state after CadastroService() is constructed
Init ==
    /\ InitRun
    /\ InitFiles
    /\ InitDb
    /\ InitAux
    /\ InitCall
    /\ InitCache
    /\ retry_attempts = MaxRetries

(* --------------------------- cache service ---------------------------- *)
\* variant of salvar_cache: the cache store is replaced by the new entry
SalvarCacheSubstitui(c, chave, cadastros) ==
    [k \in {chave} |-> JsonDump(PyList(cadastros))]

\* CacheService.salvar_cache: the file of the key is (re)written
SalvarCache(c, chave, cadastros) ==
    [k \in (DOMAIN c) \cup {chave} |->
        IF k = chave THEN JsonDump(PyList(cadastros)) ELSE c[k]]

\* variant of carregar_cache: an empty stored list is reported as no entry
CarregarCacheVazioComoNone(c, chave) ==
    IF chave \notin DOMAIN c \/ ~Truthy(JsonLoad(c[chave])) THEN PyNone ELSE JsonLoad(c[chave])

\* CacheService.carregar_cache: None when the file does not exist
CarregarCache(c, chave) ==
    IF chave \notin DOMAIN c THEN PyNone ELSE JsonLoad(c[chave])

(* --------------------------- snapshot files --------------------------- *)
EscreverArquivo(fs, nome, doc) ==
    [n \in (DOMAIN fs) \cup {nome} |-> IF n = nome THEN doc ELSE fs[n]]

\* f"data/cadastros_progresso_{timestamp}{sufixo_str}.json"
NomeProgresso(ts, sufixo) == [nome |-> "cadastros_progresso", ts |-> ts, sufixo |-> sufixo]

\* f"data/cadastros_completo_{timestamp}.json"
NomeCompleto(ts) == [nome |-> "cadastros_completo", ts |-> ts, sufixo |-> ""]

\* _salvar_progresso_parcial_interno: ok = FALSE is an exception inside its
\* try block (makedirs, open); the file name is returned, or None
SalvarProgressoParcialInterno(fs, cadastros, sufixo, ts, ok) ==
    IF ok
    THEN [files |-> EscreverArquivo(fs, NomeProgresso(ts, sufixo), JsonDump(PyList(cadastros))),
          arquivo |-> NomeProgresso(ts, sufixo)]
    ELSE [files |-> fs, arquivo |-> NenhumArquivo]

\* the envelope salvar_resultado_final_interno dumps
EnvelopeFinal(cadastros, ts) ==
    PyDict([k \in {"metadados", "cadastros"} |->
        IF k = "cadastros" THEN PyList(cadastros)
        ELSE PyDict([m \in {"data_extracao", "total_cadastros", "versao_sistema"} |->
                CASE m = "data_extracao" -> PyStr(ToString(ts))
                  [] m = "total_cadastros" -> PyInt(Len(cadastros))
                  [] m = "versao_sistema" -> PyStr("2.0")])])

\* salvar_resultado_final_interno
SalvarResultadoFinalInterno(fs, cadastros, ts, ok) ==
    IF ok
    THEN [files |-> EscreverArquivo(fs, NomeCompleto(ts), JsonDump(EnvelopeFinal(cadastros, ts))),
          arquivo |-> NomeCompleto(ts)]
    ELSE [files |-> fs, arquivo |-> NenhumArquivo]

\* variant of the failure result: the partial record list is dropped
ResultadoFalhaSemCadastros(erro, cadastros, arquivo) ==
    [sucesso |-> FALSE, erro |-> erro, cadastros |-> <<>>, arquivo_salvo |-> arquivo]

\* the dict the except blocks of extrair_todos_cadastros return
ResultadoFalha(erro, cadastros, arquivo) ==
    [sucesso |-> FALSE, erro |-> erro, cadastros |-> cadastros, arquivo_salvo |-> arquivo]

\* the dict the try block returns
ResultadoSucesso(cadastros, requisicoes, tempo, arquivo) ==
    [sucesso |-> TRUE, cadastros |-> cadastros, total_cadastros |-> Len(cadastros),
     total_requisicoes |-> requisicoes, tempo_execucao |-> tempo, arquivo_salvo |-> arquivo]

(* ----------------------- actions: orchestrator ------------------------ *)
Parado == pc \in {"idle", "done", "aborted", "raised"}

\* extrair_todos_cadastros, lines 54-64: clamp, intervals, tracker.  The
\* ValueError of range() for a zero step is raised before the try block.
IniciarExtracao(inicio, fim, tamanho) ==
    /\ Parado
    /\ runs < MaxRuns
    /\ runs' = runs + 1
    /\ entrada' = [inicio |-> inicio, fim |-> fim, tamanho |-> tamanho]
    /\ IF ClampSize(tamanho) = 0
       THEN /\ pc' = "raised"
            /\ intervalos' = <<>>
            /\ resultado' = [excecao |-> "ValueError"]
       ELSE /\ pc' = "loop"
            /\ intervalos' = GerarIntervalos(inicio, fim, ClampSize(tamanho))
            /\ resultado' = SemResultado
    /\ idx' = 1
    /\ todos_cadastros' = <<>>
    /\ cadastros_intervalo' = <<>>
    /\ tracker' = [requisicoes_realizadas |-> 0, inicio_tempo |-> now]
    /\ fetchLog' = <<>> /\ visitLog' = <<>> /\ cacheLog' = <<>>
    /\ saveLog' = <<>> /\ abortLog' = <<>>
    /\ UNCHANGED <<cache, files, now, callVars, pendentes, cacheVars, dbVars, auxVars>>

NoLaco == pc = "loop" /\ idx <= Len(intervalos)

\* one entry of saveLog
Gravacao(tipo, sufixo, cadastros, arquivo) ==
    [tipo |-> tipo, sufixo |-> sufixo, cadastros |-> cadastros, arquivo |-> arquivo]

\* the handler shared by both except blocks (lines 116-137): one partial
\* snapshot when something was accumulated, then the failure result
Abortar(causa, sufixo, erro, todos, ok) ==
    LET salvo == SalvarProgressoParcialInterno(files, todos, sufixo, now, ok)
    IN /\ IF todos # <<>>
          THEN /\ files' = salvo.files
               /\ saveLog' = Append(saveLog, Gravacao("parcial", sufixo, todos, salvo.arquivo))
               /\ resultado' = ResultadoFalha(erro, todos, salvo.arquivo)
          ELSE /\ ok
               /\ UNCHANGED <<files, saveLog>>
               /\ resultado' = ResultadoFalha(erro, todos, NenhumArquivo)
       /\ abortLog' = Append(abortLog, [causa |-> causa, em |-> pc, cadastros |-> todos])
       /\ todos_cadastros' = todos
       /\ pc' = "aborted"

\* variant of the cache test: "if cadastros_cache:" (truthiness)
TemCacheVerdadeiro(x) == Truthy(x)

\* the test "cadastros_cache is not None" of line 162
TemCache(x) == x.t # "none"

\* _buscar_por_intervalo, lines 158-163: the cache holds an entry
BuscarNoCache ==
    /\ NoLaco
    /\ LET chave == intervalos[idx]
           cadastros_cache == CarregarCache(cache, chave)
       IN /\ TemCache(cadastros_cache)
          /\ cadastros_intervalo' = cadastros_cache.v
          /\ visitLog' = Append(visitLog, [chave |-> chave, origem |-> "cache",
                                           cadastros |-> cadastros_cache.v])
    /\ pc' = "body"
    /\ UNCHANGED <<envVars, entrada, intervalos, idx, todos_cadastros, tracker, resultado,
                   callVars, fetchLog, cacheLog, saveLog, abortLog, pendentes, cacheVars, dbVars, auxVars>>

\* variant of the except clauses: SOAPClientError is not among them
BuscaCapturaFalhaSemSOAP(tipo) == tipo \in {"ValueError", "TypeError"}

\* the except clauses of _buscar_por_intervalo (lines 185-190)
BuscaCapturaFalha(tipo) == tipo \in {"SOAPClientError", "Exception"}

\* _buscar_por_intervalo, lines 165-190, on a cache miss: the general
\* search is issued through buscar_cadastro_geral and _call, which returns
\* the item list or raises SOAPClientError once all rounds are exhausted.
\* On return the items are normalized, stored in the cache and returned;
\* on the error the interval yields an empty list.  An exception the
\* clauses did not catch would reach the handler of lines 127-137.
BuscarNoSOAP(res, ok) ==
    /\ NoLaco
    /\ LET chave == intervalos[idx]
           cadastros_cache == CarregarCache(cache, chave)
           cadastros_processados == ProcessarLista(ItensDoIntervalo(chave[1], chave[2]))
       IN /\ ~TemCache(cadastros_cache)
          /\ fetchLog' = Append(fetchLog, [chave |-> chave, cache |-> cadastros_cache,
                                           tinha |-> chave \in DOMAIN cache,
                                           repetida |-> chave \in pendentes, res |-> res])
          /\ IF res = "returned"
             THEN /\ ok
                  /\ cache' = SalvarCache(cache, chave, cadastros_processados)
                  /\ cacheLog' = Append(cacheLog, [chave |-> chave, antes |-> cadastros_cache,
                                                   tinha |-> chave \in DOMAIN cache,
                                                   res |-> res, cadastros |-> cadastros_processados])
                  /\ cadastros_intervalo' = cadastros_processados
                  /\ visitLog' = Append(visitLog, [chave |-> chave, origem |-> "soap",
                                                   cadastros |-> cadastros_processados])
                  /\ pendentes' = pendentes \ {chave}
                  /\ pc' = "body"
                  /\ UNCHANGED <<files, todos_cadastros, resultado, saveLog, abortLog>>
             ELSE IF BuscaCapturaFalha("SOAPClientError")
             THEN /\ ok
                  /\ cadastros_intervalo' = <<>>
                  /\ visitLog' = Append(visitLog, [chave |-> chave, origem |-> "falha",
                                                   cadastros |-> <<>>])
                  /\ pendentes' = pendentes \cup {chave}
                  /\ pc' = "body"
                  /\ UNCHANGED <<cache, cacheLog, files, todos_cadastros, resultado,
                                 saveLog, abortLog>>
             ELSE /\ Abortar("SOAPClientError", "error", "str(e)", todos_cadastros, ok)
                  /\ visitLog' = Append(visitLog, [chave |-> chave, origem |-> "falha",
                                                   cadastros |-> <<>>])
                  /\ pendentes' = pendentes \cup {chave}
                  /\ UNCHANGED <<cache, cacheLog, cadastros_intervalo>>
    /\ UNCHANGED <<now, runs, entrada, intervalos, idx, tracker, callVars, cacheVars, dbVars, auxVars>>

\* if len(todos) > 0 and len(todos) % save_interval == 0
SalvamentoPeriodico(todos) == Len(todos) > 0 /\ Len(todos) % SaveInterval = 0

\* the rest of one loop iteration (lines 73-87): tracker, extend, progress
\* event, periodic snapshot, request delay
ProcessarIntervalo(ok) ==
    /\ pc = "body"
    /\ LET todos == todos_cadastros \o cadastros_intervalo
           salvo == SalvarProgressoParcialInterno(files, todos, "", now, ok)
       IN /\ todos_cadastros' = todos
          /\ IF SalvamentoPeriodico(todos)
             THEN /\ files' = salvo.files
                  /\ saveLog' = Append(saveLog, Gravacao("parcial", "", todos, salvo.arquivo))
             ELSE /\ ok
                  /\ UNCHANGED <<files, saveLog>>
    /\ tracker' = [tracker EXCEPT !.requisicoes_realizadas = @ + 1]
    /\ idx' = idx + 1
    /\ pc' = "loop"
    /\ UNCHANGED <<cache, now, runs, entrada, intervalos, cadastros_intervalo,
                   resultado, callVars, fetchLog, visitLog, cacheLog, abortLog,
                   pendentes, cacheVars, dbVars, auxVars>>

\* after the loop (lines 89-114): conclusion, final snapshot, success result
Concluir(ok) ==
    /\ pc = "loop"
    /\ idx > Len(intervalos)
    /\ LET salvo == SalvarResultadoFinalInterno(files, todos_cadastros, now, ok)
           tempo == now - tracker.inicio_tempo
       IN IF todos_cadastros # <<>>
          THEN /\ files' = salvo.files
               /\ saveLog' = Append(saveLog, Gravacao("final", "", todos_cadastros, salvo.arquivo))
               /\ resultado' = ResultadoSucesso(todos_cadastros, tracker.requisicoes_realizadas,
                                                tempo, salvo.arquivo)
          ELSE /\ ok
               /\ UNCHANGED <<files, saveLog>>
               /\ resultado' = ResultadoSucesso(todos_cadastros, tracker.requisicoes_realizadas,
                                                tempo, NenhumArquivo)
    /\ pc' = "done"
    /\ UNCHANGED <<cache, now, runs, entrada, intervalos, idx, todos_cadastros,
                   cadastros_intervalo, tracker, callVars, fetchLog, visitLog, cacheLog, abortLog,
                   pendentes, cacheVars, dbVars, auxVars>>

\* KeyboardInterrupt inside the try block (lines 116-126).  It is no
\* Exception, so neither _call nor _buscar_por_intervalo catches it.  In
\* the loop body it arrives before the extend of line 74 or after it.
Interromper(acumulou, ok) ==
    /\ pc \in {"loop", "body"}
    /\ acumulou => pc = "body"
    /\ Abortar("KeyboardInterrupt", "interrupted", "Operação interrompida pelo usuário",
               IF acumulou THEN todos_cadastros \o cadastros_intervalo ELSE todos_cadastros, ok)
    /\ UNCHANGED <<cache, now, runs, entrada, intervalos, idx,
                   cadastros_intervalo, tracker, callVars, fetchLog, visitLog, cacheLog,
                   pendentes, cacheVars, dbVars, auxVars>>

\* an exception raised by a collaborator inside the loop body after the
\* extend (the progress event of lines 77-79, the sleep of line 87),
\* handled by lines 127-137
ExcecaoNoLaco(ok) ==
    /\ pc = "body"
    /\ Abortar("Exception", "error", "str(e)", todos_cadastros \o cadastros_intervalo, ok)
    /\ tracker' = [tracker EXCEPT !.requisicoes_realizadas = @ + 1]
    /\ UNCHANGED <<cache, now, runs, entrada, intervalos, idx,
                   cadastros_intervalo, callVars, fetchLog, visitLog, cacheLog,
                   pendentes, cacheVars, dbVars, auxVars>>

\* an exception raised after the loop by the conclusion display (lines
\* 91-95), before the final snapshot is written, handled by lines 127-137
ExcecaoNaConclusao(ok) ==
    /\ pc = "loop"
    /\ idx > Len(intervalos)
    /\ Abortar("Exception", "error", "str(e)", todos_cadastros, ok)
    /\ UNCHANGED <<cache, now, runs, entrada, intervalos, idx,
                   cadastros_intervalo, tracker, callVars, fetchLog, visitLog, cacheLog,
                   pendentes, cacheVars, dbVars, auxVars>>

\* a second of wall-clock time passes, between two units of work
Tick ==
    /\ now < MaxClock
    /\ pc = "loop" \/ Parado
    /\ now' = now + 1
    /\ UNCHANGED <<cache, files, runs, pc, runVars, callVars, logVars, pendentes, cacheVars, dbVars, auxVars>>

Next ==
    \/ \E e \in Entradas : IniciarExtracao(e[1], e[2], e[3])
    \/ BuscarNoCache
    \/ \E res \in {"returned", "raised"}, ok \in BOOLEAN : BuscarNoSOAP(res, ok)
    \/ \E ok \in BOOLEAN : ProcessarIntervalo(ok)
    \/ \E ok \in BOOLEAN : Concluir(ok)
    \/ \E acumulou \in BOOLEAN, ok \in BOOLEAN : Interromper(acumulou, ok)
    \/ \E ok \in BOOLEAN : ExcecaoNoLaco(ok)
    \/ \E ok \in BOOLEAN : ExcecaoNaConclusao(ok)
    \/ Tick

Spec == Init /\ [][Next]_vars

(* ------------------- actions: CadastralSOAPClient._call --------------- *)
\* variant of the round count: one round too many
RoundsMaisUm(r) == IF r > 1 THEN r + 1 ELSE 2

\* for _ in range(max(self.retry_attempts, 1))
Rounds(r) == IF r > 1 THEN r ELSE 1

\* variant of the except clauses: a missing operation is not caught
CapturaFalhaSemAttributeError(tipo) == tipo \in {"SOAPFault", "Exception", "SOAPClientError"}

\* the except clauses of _call (lines 214-221): AttributeError, SOAPFault
\* and Exception (SOAPClientError is a subclass of Exception)
CapturaFalha(tipo) == tipo \in {"AttributeError", "SOAPFault", "Exception", "SOAPClientError"}

\* one entry of callLog
Tentativa(ev, round, op, res) == [ev |-> ev, round |-> round, op |-> op, res |-> res]

\* entry of _call (lines 200-201): ops = [op_main] + (op_fallbacks or [])
Chamar(ops) ==
    /\ callState \in {"idle", "returned", "raised"}
    /\ callOps' = ops
    /\ callRound' = 1
    /\ callOp' = 1
    /\ last_err' = NenhumErro
    /\ callState' = "running"
    /\ callErro' = NenhumaExcecao
    /\ callLog' = <<>>
    /\ UNCHANGED <<retry_attempts, envVars, pc, runVars, logVars, pendentes, cacheVars, dbVars, auxVars>>

\* one attempt that succeeds (lines 205-213): _call returns at once
TentativaOk ==
    /\ callState = "running"
    /\ callLog' = Append(callLog, Tentativa("attempt", callRound, callOps[callOp], "ok"))
    /\ callState' = "returned"
    /\ UNCHANGED <<retry_attempts, callOps, callRound, callOp, last_err, callErro,
                   envVars, pc, runVars, logVars, pendentes, cacheVars, dbVars, auxVars>>

\* one attempt that fails (lines 214-221): the error is recorded and the
\* next operation name is tried; after the last name the round ends with
\* the sleep of line 222
TentativaFalha(tipo) ==
    /\ callState = "running"
    /\ callLog' = Append(callLog, Tentativa("attempt", callRound, callOps[callOp], tipo))
    /\ IF CapturaFalha(tipo)
       THEN /\ last_err' = [tipo |-> tipo, op |-> callOps[callOp]]
            /\ IF callOp < Len(callOps)
               THEN callOp' = callOp + 1 /\ callState' = "running"
               ELSE callOp' = callOp /\ callState' = "sleeping"
            /\ UNCHANGED callErro
       ELSE /\ callState' = "raised"
            /\ callErro' = [tipo |-> tipo, causa |-> NenhumErro]
            /\ UNCHANGED <<last_err, callOp>>
    /\ UNCHANGED <<retry_attempts, callOps, callRound, envVars, pc, runVars, logVars,
                   pendentes, cacheVars, dbVars, auxVars>>

\* time.sleep(self.retry_delay) at the end of a round (line 222), then the
\* next round, or after the last round the raise of line 223
Dormir ==
    /\ callState = "sleeping"
    /\ callLog' = Append(callLog, Tentativa("sleep", callRound, "", ""))
    /\ IF callRound < Rounds(retry_attempts)
       THEN /\ callRound' = callRound + 1
            /\ callOp' = 1
            /\ callState' = "running"
            /\ UNCHANGED callErro
       ELSE /\ callState' = "raised"
            /\ callErro' = [tipo |-> "SOAPClientError", causa |-> last_err]
            /\ UNCHANGED <<callRound, callOp>>
    /\ UNCHANGED <<retry_attempts, callOps, last_err, envVars, pc, runVars, logVars,
                   pendentes, cacheVars, dbVars, auxVars>>

\* the client after construction, for every configured max_retries
InitSOAP ==
    /\ InitRun
    /\ InitFiles
    /\ InitDb
    /\ InitAux
    /\ InitCall
    /\ InitCache
    /\ retry_attempts \in 0..MaxRetries

NextCall ==
    \/ \E ops \in {OpsItbi, OpsCadastroGeral, OpsSubReceitas} : Chamar(ops)
    \/ TentativaOk
    \/ \E tipo \in Falhas : TentativaFalha(tipo)
    \/ Dormir

SpecCall == InitSOAP /\ [][NextCall]_vars

(* ----------------------- _gerar_intervalos alone ---------------------- *)
\* largest interval size handed to _gerar_intervalos
MaxTamanho == 3

\* the arguments are chosen
EscolherEntrada(inicio, fim, tamanho) ==
    /\ pc = "idle"
    /\ entrada' = [inicio |-> inicio, fim |-> fim, tamanho |-> tamanho]
    /\ pc' = "entrada"
    /\ UNCHANGED <<envVars, intervalos, idx, todos_cadastros, cadastros_intervalo, tracker,
                   resultado, callVars, logVars, pendentes, cacheVars, dbVars, auxVars>>

\* _gerar_intervalos is applied to them
Gerar ==
    /\ pc = "entrada"
    /\ intervalos' = GerarIntervalos(entrada.inicio, entrada.fim, entrada.tamanho)
    /\ pc' = "gerado"
    /\ UNCHANGED <<envVars, entrada, idx, todos_cadastros, cadastros_intervalo, tracker,
                   resultado, callVars, logVars, pendentes, cacheVars, dbVars, auxVars>>

NextIntervalos ==
    \/ \E inicio \in 0..3, fim \in 0..MaxCode, tamanho \in 1..MaxTamanho :
           EscolherEntrada(inicio, fim, tamanho)
    \/ Gerar

SpecIntervalos == Init /\ [][NextIntervalos]_vars

(* ------------------------- CacheService alone ------------------------- *)
\* interval keys handed to the cache
ChavesCache == {<<1, 2>>, <<3, 4>>, <<2, 0>>}

\* lists handed to salvar_cache: the empty list, normalized records, and a
\* record holding every kind of JSON-native value
ValoresCache ==
    {<<>>,
     ProcessarLista(<<RawCadastro(1)>>),
     ProcessarLista(<<RawCadastro(3), RawCadastro(4)>>),
     <<PyDict([k \in {"a", "b", "c", "d"} |->
         CASE k = "a" -> PyInt(7)
           [] k = "b" -> PyFloat(700)
           [] k = "c" -> PyList(<<PyNone, PyStr("")>>)
           [] k = "d" -> PyDict([m \in {"x"} |-> PyList(<<>>)])])>>}

\* salvar_cache(chave, v)
Salvar(chave, v) ==
    /\ cache' = SalvarCache(cache, chave, v)
    /\ putLog' = [k \in (DOMAIN putLog) \cup {chave} |-> IF k = chave THEN v ELSE putLog[k]]
    /\ lido' = NadaLido
    /\ UNCHANGED <<files, now, runs, pc, runVars, callVars, logVars, pendentes, dbVars, auxVars>>

\* carregar_cache(chave)
Carregar(chave) ==
    /\ lido' = [feito |-> TRUE, chave |-> chave, valor |-> CarregarCache(cache, chave)]
    /\ UNCHANGED <<envVars, pc, runVars, callVars, logVars, pendentes, putLog, dbVars, auxVars>>

\* limpar_cache: every file of the cache directory is removed
Limpar ==
    /\ cache' = <<>>
    /\ putLog' = <<>>
    /\ lido' = NadaLido
    /\ UNCHANGED <<files, now, runs, pc, runVars, callVars, logVars, pendentes, dbVars, auxVars>>

NextCache ==
    \/ \E chave \in ChavesCache, v \in ValoresCache : Salvar(chave, v)
    \/ \E chave \in ChavesCache : Carregar(chave)
    \/ Limpar

SpecCache == Init /\ [][NextCache]_vars

(* ------------------ loader entry: processar_arquivo_json -------------- *)
\* FileStorageService.carregar_dados_salvos: None for a missing file
CarregarDadosSalvos(fs, nome) ==
    IF nome \notin DOMAIN fs THEN PyNone ELSE JsonLoad(fs[nome])

\* lines 108-111 of processar_arquivo_json: the batch taken from the loaded
\* document.  "'cadastros' not in dados" is key membership for a dict and
\* element membership for a list; ok = FALSE is the failure result
LoteDoArquivo(dados) ==
    IF ~Truthy(dados) THEN [ok |-> FALSE, cadastros |-> <<>>]
    ELSE IF dados.t = "dict" /\ "cadastros" \in DOMAIN dados.v
         THEN [ok |-> dados.v["cadastros"].t = "list",
               cadastros |-> IF dados.v["cadastros"].t = "list"
                             THEN dados.v["cadastros"].v ELSE <<>>]
    ELSE [ok |-> FALSE, cadastros |-> <<>>]

(* ------------------- loader: tables and the session ------------------- *)
\* number of files handed to the loader
MaxLotes == 3

\* dict.get(k) and dict.get(k, default)
DictGet(d, k) == IF k \in DOMAIN d.v THEN d.v[k] ELSE PyNone
DictGetOr(d, k, default) == IF k \in DOMAIN d.v THEN d.v[k] ELSE default

\* a code of 51 characters
CodigoLongo == "000000000000000000000000000000000000000000000000051"

\* codigo_cadastro = Column(String(50), unique=True, nullable=False): the
\* store rejects a value that does not fit the column when the row is flushed
CabeNaColuna(x) == x.t = "str" /\ x.v # CodigoLongo

\* the child tables in the order inserir_cadastro_completo fills them, and
\* the record key each one is filled from
TabelasFilhas == <<"proprietarios", "enderecos", "zoneamentos">>
ChavesFilhas == <<"proprietariosbci", "enderecos", "zoneamentos">>

\* keys of a record that name a relationship of CadastroImobiliario
\* (hasattr is true for them), in the order the record carries them
ChavesRelacao == <<"enderecos", "zoneamentos">>

\* smallest element of a non-empty set of numbers
Menor(S) == CHOOSE x \in S : \A y \in S : x <= y

\* the codes of the parent table
Codigos(t) == {r.codigo_cadastro : r \in t.cadastros}

\* child rows of one parent row
FilhosDe(t, id) == {f \in t.filhos : f.cadastro_id = id}

\* variant of the existence query: it reads the committed table only
VerificarCadastroExisteNoBanco(t, codigo) ==
    \E r \in banco.cadastros : r.codigo_cadastro = codigo

\* DatabaseRepository.verificar_cadastro_existe: a query inside the
\* session's transaction (rows flushed earlier in the batch are seen)
VerificarCadastroExiste(t, codigo) ==
    \E r \in t.cadastros : r.codigo_cadastro = codigo

\* DatabaseRepository.inserir_cadastro_completo with the row id the sequence
\* gives.  flush = FALSE: session.flush() raised (value too long, duplicate
\* key).  ret: the id, or None when an exception was caught; a child list
\* that is None raises TypeError after the parent row was flushed.
InserirCadastroCompleto(t, id, dados) ==
    LET codigo == DictGet(dados, "codigo_cadastro")
        linha == [id |-> id, codigo_cadastro |-> codigo.v,
                  situacao |-> DictGet(dados, "situacao")]
        flush == CabeNaColuna(codigo) /\ codigo.v \notin Codigos(t)
        lista(n) == DictGetOr(dados, ChavesFilhas[n], PyList(<<>>))
        falha == {n \in DOMAIN ChavesFilhas : lista(n).t # "list"}
        ate == IF falha = {} THEN Len(ChavesFilhas) ELSE Menor(falha) - 1
        novos == UNION {{[tabela |-> TabelasFilhas[n], cadastro_id |-> id, k |-> k] :
                             k \in {k \in DOMAIN lista(n).v : lista(n).v[k].t = "dict"}} :
                        n \in 1..ate}
    IN IF ~flush THEN [flush |-> FALSE, ret |-> PyNone, t |-> t]
       ELSE [flush |-> TRUE,
             ret |-> IF falha = {} THEN PyInt(id) ELSE PyNone,
             t |-> [t EXCEPT !.cadastros = @ \cup {linha}, !.filhos = @ \cup novos]]

\* DatabaseRepository.atualizar_cadastro: setattr for every key of the
\* record that is an attribute of the row.  A relationship key given an
\* empty list replaces the collection, and the rows taken out are deleted
\* (cascade "all, delete-orphan"); given a list of dicts, or None, the
\* assignment raises and the method returns False with the attributes set
\* so far kept.  removeu: whether the collection whose assignment raised
\* was emptied before the exception.
AtualizarCadastro(t, codigo, novos_dados, removeu) ==
    LET alvo == {r \in t.cadastros : r.codigo_cadastro = codigo}
        cadastro == CHOOSE r \in alvo : TRUE
        atualizado == [cadastro EXCEPT
                          !.codigo_cadastro = DictGetOr(novos_dados, "codigo_cadastro", PyStr(@)).v,
                          !.situacao = DictGetOr(novos_dados, "situacao", @)]
        valor(n) == novos_dados.v[ChavesRelacao[n]]
        presente(n) == ChavesRelacao[n] \in DOMAIN novos_dados.v
        levanta == {n \in DOMAIN ChavesRelacao :
                       presente(n) /\ ~(valor(n).t = "list" /\ valor(n).v = <<>>)}
        ate == IF levanta = {} THEN Len(ChavesRelacao) ELSE Menor(levanta) - 1
        esvaziadas == {ChavesRelacao[n] : n \in {m \in 1..ate : presente(m)}}
                          \cup (IF levanta # {} /\ removeu
                                THEN {ChavesRelacao[Menor(levanta)]} ELSE {})
    IN IF alvo = {} THEN [ok |-> FALSE, t |-> t]
       ELSE [ok |-> levanta = {},
             t |-> [t EXCEPT
                      !.cadastros = (@ \ {cadastro}) \cup {atualizado},
                      !.filhos = {f \in @ : ~(f.cadastro_id = cadastro.id
                                               /\ f.tabela \in esvaziadas)}]]

\* variant of the status: updates do not count as success
StatusDoLoteSoInseridos(c) ==
    IF c.erros = 0 THEN "sucesso"
    ELSE IF c.inseridos > 0 THEN "parcial" ELSE "erro"

\* 'sucesso' if erros == 0 else ('parcial' if inseridos + atualizados > 0 else 'erro')
StatusDoLote(c) ==
    IF c.erros = 0 THEN "sucesso"
    ELSE IF c.inseridos + c.atualizados > 0 THEN "parcial" ELSE "erro"

\* erros_detalhes[:10]: how many messages the audit row keeps
LimiteErrosSalvos == 10

\* s[:n]
Fatia(s, n) == SubSeq(s, 1, IF Len(s) < n THEN Len(s) ELSE n)

\* variant of the counter update: the record is counted twice
ContarDuasVezes(c, campo) == [c EXCEPT ![campo] = @ + 2]

\* inseridos += 1, atualizados += 1, erros += 1
Contar(c, campo) == [c EXCEPT ![campo] = @ + 1]

\* variant of the session context: what the session holds is stored even
\* when the commit raised
GetDbSessionSemRollback(ativa, b, t) == t

\* get_db_session on leaving the with block: commit stores what the session
\* holds; with the transaction rolled back by a failed flush the commit
\* raises, rollback() is issued and the store keeps what it had
GetDbSession(ativa, b, t) == IF ativa THEN t ELSE b

\* DatabaseRepository.registrar_processamento: the audit row is added to
\* the session and flushed; the flush raises in a transaction that was
\* rolled back, the exception is caught and no row is added
RegistrarProcessamento(ativa, t, log_data) ==
    IF ativa THEN [t EXCEPT !.logs = Append(@, log_data)] ELSE t

(* ------------------------- loader: the records ------------------------ *)
Endereco1 == PyDict([k \in {"cep"} |-> PyStr("85530")])
Zoneamento1 == PyDict([k \in {"codigo_zoneamento"} |-> PyInt(3)])
Proprietario1 == PyDict([k \in {"codigo_pessoa"} |-> PyStr("77")])

\* a record with the three child lists present
CadastroComListas(codigo, situacao, props, ends, zonas) ==
    PyDict([k \in {"codigo_cadastro", "situacao", "proprietariosbci", "enderecos", "zoneamentos"} |->
        CASE k = "codigo_cadastro" -> PyStr(codigo)
          [] k = "situacao" -> PyStr(situacao)
          [] k = "proprietariosbci" -> PyList(props)
          [] k = "enderecos" -> PyList(ends)
          [] k = "zoneamentos" -> PyList(zonas)])

\* a record that carries no child list at all
CadastroSemListas(codigo, situacao) ==
    PyDict([k \in {"codigo_cadastro", "situacao"} |->
        IF k = "codigo_cadastro" THEN PyStr(codigo) ELSE PyStr(situacao)])

RegComFilhos == CadastroComListas("1", "1", <<Proprietario1>>, <<Endereco1>>, <<Zoneamento1>>)
RegListasVazias == CadastroComListas("1", "2", <<>>, <<>>, <<>>)
RegSemListas == CadastroSemListas("2", "1")
RegCodigoLongo == CadastroSemListas(CodigoLongo, "1")
RegSemCodigo == CadastroSemListas("", "1")

\* a record whose address list is null
RegListaNula ==
    PyDict([k \in {"codigo_cadastro", "situacao", "enderecos"} |->
        CASE k = "codigo_cadastro" -> PyStr("3")
          [] k = "situacao" -> PyStr("1")
          [] k = "enderecos" -> PyNone])

\* the snapshot files the loader is pointed at: final snapshots (envelopes)
\* and one partial snapshot (a bare list)
ArquivosSalvos ==
    [n \in {NomeCompleto(1), NomeCompleto(2), NomeCompleto(3), NomeCompleto(4),
            NomeCompleto(5), NomeCompleto(6), NomeProgresso(1, "interrupted")} |->
        CASE n = NomeCompleto(1) -> JsonDump(EnvelopeFinal(<<RegComFilhos, RegSemListas>>, 1))
          [] n = NomeCompleto(2) -> JsonDump(EnvelopeFinal(<<RegListasVazias>>, 2))
          [] n = NomeCompleto(3) ->
                 JsonDump(EnvelopeFinal(<<RegSemListas, RegCodigoLongo, RegComFilhos>>, 3))
          [] n = NomeCompleto(4) ->
                 JsonDump(EnvelopeFinal(<<RegSemListas, RegComFilhos, RegListasVazias>>, 4))
          [] n = NomeCompleto(5) ->
                 JsonDump(EnvelopeFinal(<<RegSemCodigo, PyStr("x"), RegSemListas, RegListaNula,
                                          RegSemListas>>, 5))
          \* eleven records that all fail: without a code, or not a mapping
          [] n = NomeCompleto(6) ->
                 JsonDump(EnvelopeFinal([k \in 1..11 |-> IF k % 2 = 1 THEN RegSemCodigo
                                                         ELSE PyStr("x")], 6))
          [] n = NomeProgresso(1, "interrupted") -> JsonDump(PyList(<<RegComFilhos>>))]

\* the paths processar_arquivo_json is called with: the files above and the
\* path of a file that does not exist
CaminhosArquivo == (DOMAIN ArquivosSalvos) \cup {NomeCompleto(0)}

(* --------------------------- loader: actions -------------------------- *)
\* one entry of opLog
Operacao(codigo, existia, op, ok, linhaAntes, linhaDepois, filhosAntes, filhosDepois) ==
    [codigo |-> codigo, existia |-> existia, op |-> op, ok |-> ok,
     linhaAntes |-> linhaAntes, linhaDepois |-> linhaDepois,
     filhosAntes |-> filhosAntes, filhosDepois |-> filhosDepois]

\* processar_arquivo_json, lines 100-114, up to the entry of the loop of
\* _processar_lote_cadastros: the file is loaded, the batch is taken from
\* it and a session is opened
ProcessarArquivoJson(caminho) ==
    /\ lpc \in {"idle", "fim"}
    /\ lotes < MaxLotes
    /\ lotes' = lotes + 1
    /\ LET dados == CarregarDadosSalvos(files, caminho)
           l == LoteDoArquivo(dados)
       IN IF l.ok
          THEN /\ lote' = l.cadastros
               /\ lpc' = "loop"
               /\ retorno' = SemRetorno
          ELSE /\ lote' = <<>>
               /\ lpc' = "fim"
               /\ retorno' = [sucesso |-> FALSE, erro |-> "Arquivo inválido ou sem cadastros"]
    /\ indice' = 1
    /\ contagem' = [inseridos |-> 0, atualizados |-> 0, erros |-> 0]
    /\ sessao' = [ativa |-> TRUE, t |-> banco]
    /\ opLog' = <<>>
    /\ antes' = banco
    /\ erros_detalhes' = <<>>
    /\ UNCHANGED <<retry_attempts, envVars, pc, runVars, callOps, callRound, callOp, last_err,
                   callState, callErro, callLog, logVars, pendentes, cacheVars, auxVars,
                   banco, seq>>

\* one iteration of the loop of _processar_lote_cadastros (lines 153-184)
ProcessarRegistro(removeu) ==
    /\ lpc = "loop"
    /\ indice <= Len(lote)
    /\ LET cadastro == lote[indice]
           codigo_cadastro == DictGet(cadastro, "codigo_cadastro")
           existia == codigo_cadastro.v \in Codigos(sessao.t)
           linhas == {r \in sessao.t.cadastros : r.codigo_cadastro = codigo_cadastro.v}
           upd == AtualizarCadastro(sessao.t, codigo_cadastro.v, cadastro, removeu)
           ins == InserirCadastroCompleto(sessao.t, seq + 1, cadastro)
           erro == Contar(contagem, "erros")
           \* erros_detalhes.append: the fixed text and the code or index
           \* formatted into it
           detalhe(msg, ref) == Append(erros_detalhes, [msg |-> msg, ref |-> ref])
       IN IF cadastro.t # "dict"
          THEN \* cadastro.get raises AttributeError, caught by line 182
               /\ contagem' = erro
               /\ erros_detalhes' = detalhe("Erro no registro", ToString(indice - 1))
               /\ opLog' = Append(opLog, Operacao("", FALSE, "excecao", FALSE, {}, {}, {}, {}))
               /\ UNCHANGED <<sessao, seq>>
          ELSE IF ~Truthy(codigo_cadastro)
          THEN /\ contagem' = erro
               /\ erros_detalhes' = detalhe("Cadastro sem código", "")
               /\ opLog' = Append(opLog, Operacao("", FALSE, "sem codigo", FALSE, {}, {}, {}, {}))
               /\ UNCHANGED <<sessao, seq>>
          ELSE IF ~sessao.ativa
          THEN \* the query raises: the transaction was rolled back by the
               \* failed flush and no rollback() was issued
               /\ contagem' = erro
               /\ erros_detalhes' = detalhe("Erro no registro", ToString(indice - 1))
               /\ opLog' = Append(opLog, Operacao(codigo_cadastro.v, FALSE, "excecao", FALSE,
                                                  {}, {}, {}, {}))
               /\ UNCHANGED <<sessao, seq>>
          ELSE IF VerificarCadastroExiste(sessao.t, codigo_cadastro.v)
          THEN /\ contagem' = IF upd.ok THEN Contar(contagem, "atualizados") ELSE erro
               /\ erros_detalhes' = IF upd.ok THEN erros_detalhes
                                    ELSE detalhe("Erro ao atualizar", codigo_cadastro.v)
               /\ sessao' = [sessao EXCEPT !.t = upd.t]
               /\ opLog' = Append(opLog, Operacao(codigo_cadastro.v, existia, "update", upd.ok,
                       linhas,
                       {r \in upd.t.cadastros : r.codigo_cadastro = codigo_cadastro.v},
                       UNION {FilhosDe(sessao.t, r.id) : r \in linhas},
                       UNION {FilhosDe(upd.t, r.id) : r \in linhas}))
               /\ UNCHANGED seq
          ELSE /\ seq' = seq + 1
               /\ contagem' = IF Truthy(ins.ret) THEN Contar(contagem, "inseridos") ELSE erro
               /\ erros_detalhes' = IF Truthy(ins.ret) THEN erros_detalhes
                                    ELSE detalhe("Erro ao inserir", codigo_cadastro.v)
               /\ sessao' = IF ins.flush THEN [sessao EXCEPT !.t = ins.t]
                            ELSE [sessao EXCEPT !.ativa = FALSE]
               /\ opLog' = Append(opLog, Operacao(codigo_cadastro.v, existia, "insert", ins.flush,
                       linhas,
                       IF ins.flush
                       THEN {r \in ins.t.cadastros : r.codigo_cadastro = codigo_cadastro.v}
                       ELSE {},
                       {}, IF ins.flush THEN FilhosDe(ins.t, seq + 1) ELSE {}))
    /\ indice' = indice + 1
    /\ UNCHANGED <<retry_attempts, envVars, pc, runVars, callOps, callRound, callOp, last_err,
                   callState, callErro, callLog, logVars, pendentes, cacheVars, auxVars,
                   banco, lote,
                   lpc, retorno, lotes, antes>>

\* after the loop (lines 186-220): the audit row, the result, and on
\* leaving the with block the commit of get_db_session.  With the
\* transaction rolled back by a failed flush the commit raises, the session
\* is rolled back and line 211 builds the failure result.
FinalizarLote ==
    /\ lpc = "loop"
    /\ indice > Len(lote)
    /\ LET log_data == [total_registros |-> Len(lote),
                        registros_inseridos |-> contagem.inseridos,
                        registros_atualizados |-> contagem.atualizados,
                        registros_erro |-> contagem.erros,
                        status |-> StatusDoLote(contagem),
                        erro_detalhes |-> Fatia(erros_detalhes, LimiteErrosSalvos)]
           t == RegistrarProcessamento(sessao.ativa, sessao.t, log_data)
       IN /\ banco' = GetDbSession(sessao.ativa, banco, t)
          /\ retorno' = IF sessao.ativa
                         THEN [sucesso |-> TRUE, total_registros |-> Len(lote),
                               inseridos |-> contagem.inseridos,
                               atualizados |-> contagem.atualizados,
                               erros |-> contagem.erros,
                               erros_detalhes |-> erros_detalhes,
                               tempo_processamento |-> 0]
                         ELSE [sucesso |-> FALSE, erro |-> "str(e)",
                               total_registros |-> Len(lote),
                               inseridos |-> contagem.inseridos,
                               atualizados |-> contagem.atualizados,
                               erros |-> contagem.erros + 1,
                               tempo_processamento |-> 0]
    /\ sessao' = [ativa |-> TRUE, t |-> banco']
    /\ lpc' = "fim"
    /\ UNCHANGED <<retry_attempts, envVars, pc, runVars, callOps, callRound, callOp, last_err,
                   callState, callErro, callLog, logVars, pendentes, cacheVars, auxVars,
                   seq, lote,
                   indice, contagem, lotes, opLog, antes, erros_detalhes>>

\* the loader with the snapshot files in place and empty tables
InitLoader ==
    /\ InitRun
    /\ InitCall
    /\ InitCache
    /\ InitDb
    /\ InitAux
    /\ retry_attempts = MaxRetries
    /\ files = ArquivosSalvos

NextLoader ==
    \/ \E caminho \in CaminhosArquivo : ProcessarArquivoJson(caminho)
    \/ \E removeu \in BOOLEAN : ProcessarRegistro(removeu)
    \/ FinalizarLote

SpecLoader == InitLoader /\ [][NextLoader]_vars

(* ------------------- buscar_cadastro_completo alone ------------------- *)
\* the related data of a record in the order buscar_cadastro_completo
\* fetches it (lines 269-275), and the method of the client each fetch
\* calls
Modulos == <<"proprietarios", "enderecos", "testadas", "caracteristicas", "subreceitas",
             "zoneamentos">>
MetodoDoModulo(m) == "buscar_" \o m

\* the fetch methods CadastralSOAPClient defines
MetodosDoCliente ==
    {"buscar_cadastro_geral", "buscar_cadastro_especifico", "buscar_proprietarios",
     "buscar_enderecos", "buscar_testadas", "buscar_subreceitas", "buscar_zoneamentos",
     "buscar_anexos", "buscar_historico", "buscar_bloco_itens", "buscar_itbi"}

\* what a fetch of the client gives: the list _extract_list_by_keys
\* returns, or the SOAPClientError _call raises after its last round
Item(n) == PyDict([k \in {"codigo"} |-> PyInt(n)])
RespostasDoModulo ==
    {[ok |-> TRUE, v |-> l] : l \in {<<>>, <<Item(1)>>, <<Item(1), Item(2)>>}}
        \cup {[ok |-> FALSE, v |-> <<>>]}

\* what buscar_cadastro_especifico gives: the record, None (resp or None),
\* or the SOAPClientError of _call
RespostasPrincipais ==
    {[ok |-> TRUE, v |-> RawCadastro(1)], [ok |-> TRUE, v |-> PyNone],
     [ok |-> TRUE, v |-> PyDict(<<>>)], [ok |-> FALSE, v |-> PyNone]}

\* lines 289-299: the object built from the main data and the six lists
MontarCadastro(principal, dados) ==
    [t |-> "cadastro",
     v |-> [principal |-> principal,
            relacionados |-> [m \in {Modulos[n] : n \in DOMAIN Modulos} |->
                                 dados[CHOOSE n \in DOMAIN Modulos : Modulos[n] = m]]]]

\* lines 260-267: the main data is fetched; an exception is caught by the
\* except of line 301 and an empty answer returns None at once
BuscarCadastroCompleto(codigo, res) ==
    /\ completo.pc \in {"idle", "fim"}
    /\ completo' = [pc |-> IF res.ok /\ Truthy(res.v) THEN "modulos" ELSE "fim",
                    codigo |-> codigo,
                    principal |-> IF res.ok THEN res.v ELSE PyNone,
                    modulo |-> 1, dados |-> <<>>, chamadas |-> <<>>, retorno |-> PyNone]
    /\ UNCHANGED <<retry_attempts, envVars, pc, runVars, callVars, logVars, pendentes, cacheVars,
                   dbVars, puro>>

\* one of the fetches of lines 269-275, and after the last one the object
\* of lines 277-299.  All of them stand in the try of line 260: a method the
\* client does not define raises AttributeError, a failed fetch raises
\* SOAPClientError, and either one reaches the except of line 301, which
\* returns None.
BuscarModulo(res) ==
    /\ completo.pc = "modulos"
    /\ LET m == Modulos[completo.modulo]
           existe == MetodoDoModulo(m) \in MetodosDoCliente
           dados == Append(completo.dados, res.v)
       IN IF ~existe
          THEN completo' = [completo EXCEPT !.pc = "fim", !.retorno = PyNone]
          ELSE IF ~res.ok
          THEN completo' = [completo EXCEPT !.pc = "fim", !.retorno = PyNone,
                                            !.chamadas = Append(@, m)]
          ELSE IF completo.modulo < Len(Modulos)
          THEN completo' = [completo EXCEPT !.modulo = @ + 1, !.dados = dados,
                                            !.chamadas = Append(@, m)]
          ELSE completo' = [completo EXCEPT !.pc = "fim", !.dados = dados,
                                            !.chamadas = Append(@, m),
                                            !.retorno = MontarCadastro(completo.principal, dados)]
    /\ UNCHANGED <<retry_attempts, envVars, pc, runVars, callVars, logVars, pendentes, cacheVars,
                   dbVars, puro>>

NextCompleto ==
    \/ \E codigo \in {"1", "2"}, res \in RespostasPrincipais : BuscarCadastroCompleto(codigo, res)
    \/ \E res \in RespostasDoModulo : BuscarModulo(res)

SpecCompleto == Init /\ [][NextCompleto]_vars

(* ---------------- soap_client: dates and the wire tree ---------------- *)
\* the character at position i of a string
Ch(s, i) == SubSeq(s, i, i)

Digitos == {"0", "1", "2", "3", "4", "5", "6", "7", "8", "9"}
Digito(c) ==
    CASE c = "0" -> 0 [] c = "1" -> 1 [] c = "2" -> 2 [] c = "3" -> 3 [] c = "4" -> 4
      [] c = "5" -> 5 [] c = "6" -> 6 [] c = "7" -> 7 [] c = "8" -> 8 [] c = "9" -> 9

\* int() of the n digits of s that start at position i
RECURSIVE IntDe(_, _, _)
IntDe(s, i, n) ==
    IF n = 0 THEN 0 ELSE 10 * IntDe(s, i, n - 1) + Digito(Ch(s, i + n - 1))

\* str.strip()
RECURSIVE Strip(_)
Strip(s) ==
    LET espacos == {" ", "\t", "\n"}
    IN IF Len(s) = 0 THEN s
       ELSE IF Ch(s, 1) \in espacos THEN Strip(SubSeq(s, 2, Len(s)))
       ELSE IF Ch(s, Len(s)) \in espacos THEN Strip(SubSeq(s, 1, Len(s) - 1))
       ELSE s

\* a string against a pattern of fixed length in which d stands for \d
Casa(s, mascara) ==
    /\ Len(s) = Len(mascara)
    /\ \A i \in 1..Len(s) :
          IF Ch(mascara, i) = "d" THEN Ch(s, i) \in Digitos ELSE Ch(s, i) = Ch(mascara, i)

\* re.match of a pattern that ends with $: the end of the string, or the
\* position before a final newline
CasaAteOFim(s, mascara) ==
    \/ Casa(s, mascara)
    \/ /\ Len(s) > 0
       /\ Ch(s, Len(s)) = "\n"
       /\ Casa(SubSeq(s, 1, Len(s) - 1), mascara)

\* _DATE_BR_RE = ^\d{2}/\d{2}/\d{4}(?: \d{2}:\d{2}:\d{2})?$
DATE_BR_RE(s) ==
    CasaAteOFim(s, "dd/dd/dddd") \/ CasaAteOFim(s, "dd/dd/dddd dd:dd:dd")

\* days of a month of the proleptic Gregorian calendar
DiasDoMes(ano, mes) ==
    IF mes = 2
    THEN (IF ano % 4 = 0 /\ (ano % 100 # 0 \/ ano % 400 = 0) THEN 29 ELSE 28)
    ELSE IF mes \in {4, 6, 9, 11} THEN 30 ELSE 31

\* variant of strptime: the fields are taken as they stand
StrptimeSemValidar(s, comHora) ==
    [ok |-> TRUE,
     ano |-> IntDe(s, 7, 4), mes |-> IntDe(s, 4, 2), dia |-> IntDe(s, 1, 2),
     hora |-> IF comHora THEN IntDe(s, 12, 2) ELSE 0,
     minuto |-> IF comHora THEN IntDe(s, 15, 2) ELSE 0,
     segundo |-> IF comHora THEN IntDe(s, 18, 2) ELSE 0]

\* datetime.strptime(s, "%d/%m/%Y %H:%M:%S") and datetime.strptime(s,
\* "%d/%m/%Y") for a string that matched _DATE_BR_RE: ok = FALSE stands
\* for the ValueError of a text left over, a field out of range or a day
\* the month does not have
Strptime(s, comHora) ==
    LET inteiro == Casa(s, IF comHora THEN "dd/dd/dddd dd:dd:dd" ELSE "dd/dd/dddd")
        ano == IntDe(s, 7, 4)
        mes == IntDe(s, 4, 2)
        dia == IntDe(s, 1, 2)
        hora == IF comHora THEN IntDe(s, 12, 2) ELSE 0
        minuto == IF comHora THEN IntDe(s, 15, 2) ELSE 0
        segundo == IF comHora THEN IntDe(s, 18, 2) ELSE 0
    IN IF ~inteiro THEN [ok |-> FALSE, ano |-> 0, mes |-> 0, dia |-> 0,
                         hora |-> 0, minuto |-> 0, segundo |-> 0]
       ELSE [ok |-> /\ ano >= 1
                    /\ mes \in 1..12
                    /\ dia >= 1
                    /\ dia <= DiasDoMes(ano, mes)
                    /\ hora <= 23
                    /\ minuto <= 59
                    /\ segundo <= 59,
             ano |-> ano, mes |-> mes, dia |-> dia,
             hora |-> hora, minuto |-> minuto, segundo |-> segundo]

\* a number written with at least w digits
RECURSIVE Preencher(_, _)
Preencher(txt, w) == IF Len(txt) >= w THEN txt ELSE Preencher("0" \o txt, w)

\* strftime("%Y-%m-%d %H:%M:%S") and strftime("%Y-%m-%d")
Strftime(dt, comHora) ==
    Preencher(ToString(dt.ano), 4) \o "-" \o Preencher(ToString(dt.mes), 2) \o "-"
        \o Preencher(ToString(dt.dia), 2)
        \o (IF comHora
            THEN " " \o Preencher(ToString(dt.hora), 2) \o ":"
                     \o Preencher(ToString(dt.minuto), 2) \o ":"
                     \o Preencher(ToString(dt.segundo), 2)
            ELSE "")

\* _to_iso_date_if_needed for a string; comHora is " " in s
ToIsoDateIfNeeded(s) ==
    IF DATE_BR_RE(s)
    THEN LET comHora == \E i \in 1..Len(s) : Ch(s, i) = " "
             dt == Strptime(s, comHora)
         IN IF dt.ok THEN Strftime(dt, comHora) ELSE s
    ELSE s

\* _normalize_obj
RECURSIVE NormalizeObj(_)
NormalizeObj(obj) ==
    CASE obj.t = "str" -> PyStr(ToIsoDateIfNeeded(obj.v))
      [] obj.t = "list" -> PyList([i \in DOMAIN obj.v |-> NormalizeObj(obj.v[i])])
      [] obj.t = "dict" -> PyDict([k \in DOMAIN obj.v |-> NormalizeObj(obj.v[k])])
      [] OTHER -> obj

\* an XML element: its local name, its text and its child elements
Elem(tag, text, filhos) == [tag |-> tag, text |-> text, filhos |-> filhos]

\* the children of an element that carry a given name, in document order
FilhosCom(elem, tag) == SelectSeq(elem.filhos, LAMBDA c : c.tag = tag)

\* _elem_to_obj: a leaf gives its stripped text after date normalization;
\* an element with children gives a dict in which a name that occurs once
\* maps to the child's value and a repeated name to the list of the values
RECURSIVE ElemToObj(_)
ElemToObj(elem) ==
    IF elem.filhos = <<>>
    THEN PyStr(ToIsoDateIfNeeded(Strip(elem.text)))
    ELSE PyDict([k \in {elem.filhos[i].tag : i \in DOMAIN elem.filhos} |->
                    LET cs == FilhosCom(elem, k)
                    IN IF Len(cs) = 1 THEN ElemToObj(cs[1])
                       ELSE PyList([i \in DOMAIN cs |-> ElemToObj(cs[i])])])

\* _unwrap_return
UnwrapReturn(resp) ==
    IF resp.t # "dict" THEN resp
    ELSE IF "return" \in DOMAIN resp.v /\ resp.v["return"].t \in {"dict", "list"}
    THEN resp.v["return"]
    ELSE IF "retorno" \in DOMAIN resp.v /\ resp.v["retorno"].t \in {"dict", "list"}
    THEN resp.v["retorno"]
    ELSE resp

\* the leaf texts the service sends
TextosDeFolha ==
    {"01/02/2023", "31/02/2023", "29/02/2024", "29/02/2023", "29/02/1900", "29/02/2000",
     "31/04/2023", "00/01/2023", "01/13/2023", "01/01/0000", "31/12/1999",
     "31/12/2023 23:59:59", "15/08/2023 07:05:09", "01/01/2023 24:00:00",
     "01/01/2023 12:60:00", "15/08/2023 07:05:60", "2023-02-01", "2023-02-01 10:00:00",
     "1/2/2023", "01/02/23", "abc", "", " 01/02/2023 ", "01/02/2023\n", " abc  "}

\* the texts placed side by side in one element
TextosLadoALado ==
    {"01/02/2023", "31/02/2023", "15/08/2023 07:05:09", "2023-02-01", "abc", " 01/02/2023 "}

\* the response elements: a leaf, two children of different names, a
\* repeated child, and a payload under a return wrapper
Respostas ==
    {Elem("data", t, <<>>) : t \in TextosDeFolha}
    \cup {Elem("resposta", "", <<Elem("data", a, <<>>), Elem("obs", b, <<>>)>>) :
              a \in TextosLadoALado, b \in TextosLadoALado}
    \cup {Elem("resposta", "", <<Elem("data", a, <<>>), Elem("obs", b, <<>>), Elem("data", b, <<>>)>>) :
              a \in TextosLadoALado, b \in TextosLadoALado}
    \cup {Elem("resposta", "", <<Elem("return", "", <<Elem("data", t, <<>>)>>)>>) :
              t \in TextosDeFolha}

\* _call, lines 211-213, for the element the parser found in the Body
\* (_parse_soap_response returns _elem_to_obj of it)
NormalizarResposta(elem) ==
    /\ puro' = [f |-> "_call", x |-> elem,
                y |-> NormalizeObj(UnwrapReturn(ElemToObj(elem)))]
    /\ UNCHANGED <<retry_attempts, envVars, pc, runVars, callVars, logVars, pendentes, cacheVars,
                   dbVars, completo>>

NextDatas == \E elem \in Respostas : NormalizarResposta(elem)

SpecDatas == Init /\ [][NextDatas]_vars

(* ---------------------- soap_client: _to_list ------------------------- *)
\* _to_list: the Python list it returns, as a sequence
ToList(value) ==
    IF value.t = "none" THEN <<>>
    ELSE IF value.t = "list" THEN value.v
    ELSE IF value.t = "dict"
    THEN IF "item" \in DOMAIN value.v
         THEN (IF value.v["item"].t = "list" THEN value.v["item"].v ELSE <<value.v["item"]>>)
         ELSE IF Cardinality(DOMAIN value.v) = 1
                 /\ value.v[CHOOSE k \in DOMAIN value.v : TRUE].t = "list"
         THEN value.v[CHOOSE k \in DOMAIN value.v : TRUE].v
         ELSE <<value>>
    ELSE <<value>>

\* _extract_first: the value of the first of the keys the response has
ExtractFirst(resp, keys) ==
    LET tem == {n \in DOMAIN keys : keys[n] \in DOMAIN resp.v}
    IN IF tem = {} THEN PyNone ELSE resp.v[keys[Menor(tem)]]

\* CadastralSOAPClient._extract_list_by_keys
ExtractListByKeys(resp, keys) ==
    IF resp.t # "dict" THEN ToList(resp) ELSE ToList(ExtractFirst(resp, keys))

\* what a collection of the service may hold, and the collections of up to
\* two entries
EntradasDeColecao == {Item(1), Item(2), PyStr("x"), PyInt(7), PyNone}
Colecoes ==
    {<<>>} \cup {<<a>> : a \in EntradasDeColecao}
           \cup {<<a, b>> : a \in EntradasDeColecao, b \in EntradasDeColecao}

\* a dict with one key
UmCampo(k, v) == PyDict([c \in {k} |-> v])

\* the shapes a collection arrives in: a flat list, an item wrapper around
\* a list or around one entry, a wrapper of another name, one mapping, a
\* scalar, nothing
FormasDeColecao ==
    {PyList(q) : q \in Colecoes}
    \cup {UmCampo("item", PyList(q)) : q \in Colecoes}
    \cup {UmCampo("item", e) : e \in EntradasDeColecao}
    \cup {UmCampo("proprietario", PyList(q)) : q \in Colecoes}
    \cup {Item(1), RawCadastro(1), PyStr("x"), PyInt(7), PyNone}

\* _to_list applied to a collection
AplicarToList(value) ==
    /\ puro' = [f |-> "_to_list", x |-> value, y |-> PyList(ToList(value))]
    /\ UNCHANGED <<retry_attempts, envVars, pc, runVars, callVars, logVars, pendentes, cacheVars,
                   dbVars, completo>>

\* buscar_proprietarios, line 293: the list extracted from a response that
\* holds the collection under one of the two keys, or is the collection
AplicarExtractListByKeys(chave, value) ==
    /\ LET resp == IF chave = "" THEN value ELSE UmCampo(chave, value)
       IN puro' = [f |-> "_extract_list_by_keys", x |-> value,
                   y |-> PyList(ExtractListByKeys(resp, <<"proprietarios", "proprietario">>))]
    /\ UNCHANGED <<retry_attempts, envVars, pc, runVars, callVars, logVars, pendentes, cacheVars,
                   dbVars, completo>>

NextToList ==
    \/ \E value \in FormasDeColecao : AplicarToList(value)
    \/ \E chave \in {"proprietarios", "proprietario", ""}, value \in FormasDeColecao :
           AplicarExtractListByKeys(chave, value)

SpecToList == Init /\ [][NextToList]_vars

(* ------------------- data_models: normalize_int_field ----------------- *)
\* the digits of an integer literal: underscores stand between digits only
DigitosComSublinhado(seg) ==
    /\ Len(seg) > 0
    /\ \A i \in 1..Len(seg) : Ch(seg, i) \in Digitos \cup {"_"}
    /\ Ch(seg, 1) \in Digitos
    /\ Ch(seg, Len(seg)) \in Digitos
    /\ \A i \in 1..(Len(seg) - 1) : ~(Ch(seg, i) = "_" /\ Ch(seg, i + 1) = "_")

\* the number such digits write
RECURSIVE ValorDe(_)
ValorDe(seg) ==
    IF Len(seg) = 0 THEN 0
    ELSE LET resto == ValorDe(SubSeq(seg, 1, Len(seg) - 1))
             c == Ch(seg, Len(seg))
         IN IF c = "_" THEN resto ELSE 10 * resto + Digito(c)

\* int(s) for a string: surrounding whitespace and a sign are accepted, a
\* decimal point is not; ok = FALSE is ValueError
IntOf(s) ==
    LET t == Strip(s)
        sinal == IF Len(t) > 0 /\ Ch(t, 1) \in {"+", "-"} THEN Ch(t, 1) ELSE ""
        corpo == IF sinal = "" THEN t ELSE SubSeq(t, 2, Len(t))
    IN IF DigitosComSublinhado(corpo)
       THEN [ok |-> TRUE, n |-> IF sinal = "-" THEN 0 - ValorDe(corpo) ELSE ValorDe(corpo)]
       ELSE [ok |-> FALSE, n |-> 0]

\* int(x) for a float of n hundredths: truncation towards zero
Truncar(n) == IF n >= 0 THEN n \div 100 ELSE 0 - ((0 - n) \div 100)

\* normalize_int_field.  float('inf') and float('nan') are values of their
\* own kind: int(nan) raises ValueError, which is caught; int(inf) raises
\* OverflowError, which leaves the function
NormalizeIntField(value) ==
    CASE value.t = "none" -> PyNone
      [] value.t = "int" -> value
      [] value.t = "str" -> (IF IntOf(value.v).ok THEN PyInt(IntOf(value.v).n) ELSE PyNone)
      [] value.t = "float" -> PyInt(Truncar(value.v))
      [] value.t = "float nan" -> PyNone
      [] value.t = "float inf" -> [t |-> "raise", v |-> "OverflowError"]
      [] OTHER -> PyNone

\* the values a numeric field arrives with
ValoresDeCampo ==
    {PyInt(n) : n \in (0 - 5)..30}
    \cup {PyStr(ToString(n)) : n \in 0..40}
    \cup {PyFloat(n) : n \in {0 - 1270, 0 - 50, 0, 50, 99, 100, 700, 1270, 1299}}
    \cup {PyStr(t) : t \in {"12.7", "12,7", "0.5", ".5", "12.", "-12.7", "-3", "+4", " 12 ",
                            "12\n", "1_000", "_1", "1__0", "0012", "", " ", "-", "abc",
                            "12.7.1", "12a"}}
    \cup {PyNone, [t |-> "float inf", v |-> ""], [t |-> "float nan", v |-> ""],
          PyList(<<>>), PyList(<<PyInt(1)>>), Item(1)}

AplicarNormalizeIntField(value) ==
    /\ puro' = [f |-> "normalize_int_field", x |-> value, y |-> NormalizeIntField(value)]
    /\ UNCHANGED <<retry_attempts, envVars, pc, runVars, callVars, logVars, pendentes, cacheVars,
                   dbVars, completo>>

NextInteiro == \E value \in ValoresDeCampo : AplicarNormalizeIntField(value)

SpecInteiro == Init /\ [][NextInteiro]_vars

(* ------------- statistics_service: _analisar_lacunas_codigos ---------- *)
\* the lists of codes analysed: up to MaxCodigos codes out of 1..MaiorCodigo
MaxCodigos == 3
MaiorCodigo == 6

\* 'maiores_lacunas': lacunas_ordenadas[:10]
MaioresLacunas == 10

\* sorted(set(codigos))
RECURSIVE Sorted(_)
Sorted(S) == IF S = {} THEN <<>> ELSE <<Menor(S)>> \o Sorted(S \ {Menor(S)})

\* variant of the gap: it ends at the next code
LacunaAteProximo(atual, proximo) ==
    [inicio |-> atual + 1, fim |-> proximo, tamanho |-> proximo - atual - 1]

\* the gap between two consecutive codes of the sorted list
Lacuna(atual, proximo) ==
    [inicio |-> atual + 1, fim |-> proximo - 1, tamanho |-> proximo - atual - 1]

\* the loop of lines 206-216: one gap for every pair of neighbours more
\* than 1 apart, in ascending order
Lacunas(ordenados) ==
    LET pos == SelectSeq([i \in 1..(Len(ordenados) - 1) |-> i],
                         LAMBDA i : ordenados[i + 1] - ordenados[i] > 1)
    IN [k \in DOMAIN pos |-> Lacuna(ordenados[pos[k]], ordenados[pos[k] + 1])]

\* sorted(lacunas, key=tamanho, reverse=True): a stable sort, gaps of one
\* size keep their order
RECURSIVE OrdenarPorTamanho(_)
OrdenarPorTamanho(ls) ==
    IF ls = <<>> THEN <<>>
    ELSE LET l == ls[Len(ls)]
             ordenadas == OrdenarPorTamanho(SubSeq(ls, 1, Len(ls) - 1))
         IN SelectSeq(ordenadas, LAMBDA o : o.tamanho >= l.tamanho) \o <<l>>
                \o SelectSeq(ordenadas, LAMBDA o : o.tamanho < l.tamanho)

\* sum(l['tamanho'] for l in lacunas)
RECURSIVE SomaTamanhos(_)
SomaTamanhos(ls) == IF ls = <<>> THEN 0 ELSE ls[1].tamanho + SomaTamanhos(Tail(ls))

\* StatisticsService._analisar_lacunas_codigos; lacuna_media is the
\* quotient of the two numbers kept
AnalisarLacunasCodigos(codigos) ==
    IF codigos = <<>>
    THEN [total_lacunas |-> 0, maiores_lacunas |-> <<>>]
    ELSE LET codigos_ordenados == Sorted({codigos[i] : i \in DOMAIN codigos})
             lacunas == Lacunas(codigos_ordenados)
             lacunas_ordenadas == OrdenarPorTamanho(lacunas)
         IN [total_lacunas |-> Len(lacunas),
             maiores_lacunas |-> Fatia(lacunas_ordenadas, MaioresLacunas),
             lacuna_media |-> IF lacunas # <<>>
                              THEN [soma |-> SomaTamanhos(lacunas), n |-> Len(lacunas)]
                              ELSE [soma |-> 0, n |-> 1]]

\* every list of up to n codes
RECURSIVE ListasAte(_)
ListasAte(n) ==
    IF n = 0 THEN {<<>>}
    ELSE ListasAte(n - 1) \cup
         {Append(q, c) : q \in {p \in ListasAte(n - 1) : Len(p) = n - 1}, c \in 1..MaiorCodigo}

\* the lists analysed: the short ones, the list of the example, a list
\* out of order with repeated codes, and two lists with more than ten gaps
ListasDeCodigos ==
    ListasAte(MaxCodigos)
    \cup {<<1, 2, 3, 7, 8, 10>>, <<10, 1, 3, 3, 7, 2, 8, 1>>,
          <<1, 3, 5, 7, 9, 11, 13, 15, 17, 19, 21, 23>>,
          <<1, 3, 6, 10, 15, 21, 28, 36, 45, 55, 66, 78, 91>>,
          <<40, 1, 3, 6, 8, 11, 13, 16, 18, 21, 23, 26, 28, 31>>}

AplicarAnalisarLacunas(codigos) ==
    /\ puro' = [f |-> "_analisar_lacunas_codigos", x |-> codigos,
                y |-> AnalisarLacunasCodigos(codigos)]
    /\ UNCHANGED <<retry_attempts, envVars, pc, runVars, callVars, logVars, pendentes, cacheVars,
                   dbVars, completo>>

NextLacunas == \E codigos \in ListasDeCodigos : AplicarAnalisarLacunas(codigos)

SpecLacunas == Init /\ [][NextLacunas]_vars

(* ------------------------------ properties ---------------------------- *)
\* the attempts of callLog, without the sleeps
Attempts(log) == SelectSeq(log, LAMBDA e : e.ev = "attempt")
Sleeps(log) == SelectSeq(log, LAMBDA e : e.ev = "sleep")
AoMenosUm(r) == IF r >= 1 THEN r ELSE 1

RECURSIVE ConcatCadastros(_)
\* the results of the visited intervals, concatenated in visit order
ConcatCadastros(log) ==
    IF log = <<>> THEN <<>> ELSE Head(log).cadastros \o ConcatCadastros(Tail(log))

\* C1: every general-search fetch the orchestrator issues carries a code
\* range a-b with b - a + 1 <= max_interval_size, whatever start, end and
\* size the run was started with (a size above the maximum is clamped).
C1_FetchWithinMax ==
    \A n \in DOMAIN fetchLog :
        fetchLog[n].chave[2] - fetchLog[n].chave[1] + 1 <= MaxIntervalSize

\* a run asked for a size above the maximum has fetched an interval of
\* exactly the maximum size
C1_Witness ==
    /\ entrada.tamanho > MaxIntervalSize
    /\ \E n \in DOMAIN fetchLog :
           fetchLog[n].chave[2] - fetchLog[n].chave[1] + 1 = MaxIntervalSize

\* C2: for inicio <= fim and size >= 1 the list of _gerar_intervalos is
\* ascending, its intervals are pairwise disjoint and their union is
\* exactly inicio..fim.
C2_IntervalosParticionam ==
    (pc = "gerado" /\ entrada.inicio <= entrada.fim /\ entrada.tamanho >= 1) =>
        /\ \A n \in DOMAIN intervalos : intervalos[n][1] <= intervalos[n][2]
        /\ \A n \in 1..(Len(intervalos) - 1) : intervalos[n][2] < intervalos[n + 1][1]
        /\ UNION {intervalos[n][1]..intervalos[n][2] : n \in DOMAIN intervalos}
               = entrada.inicio..entrada.fim

\* a range split into several intervals, the last one cut short by fim
C2_Witness ==
    /\ pc = "gerado"
    /\ entrada.inicio <= entrada.fim
    /\ Len(intervalos) >= 2
    /\ intervalos[Len(intervalos)][2] - intervalos[Len(intervalos)][1] + 1 < entrada.tamanho

\* C3: a fetch error on any subset of intervals never aborts the run: the
\* intervals are visited in list order, a failed interval contributes no
\* record, the records of the other intervals are accumulated, and a run
\* whose loop ends returns sucesso = True with all of them.
C3_FalhaNaoAborta ==
    /\ \A n \in DOMAIN visitLog :
          /\ visitLog[n].chave = intervalos[n]
          /\ visitLog[n].origem = "falha" => visitLog[n].cadastros = <<>>
          /\ visitLog[n].origem = "soap" =>
                 visitLog[n].cadastros =
                     ProcessarLista(ItensDoIntervalo(visitLog[n].chave[1], visitLog[n].chave[2]))
    /\ \A n \in DOMAIN abortLog : abortLog[n].causa \in {"KeyboardInterrupt", "Exception"}
    /\ pc = "loop" => Len(visitLog) = idx - 1 /\ todos_cadastros = ConcatCadastros(visitLog)
    /\ pc = "done" =>
          /\ Len(visitLog) = Len(intervalos)
          /\ resultado.sucesso
          /\ resultado.cadastros = ConcatCadastros(visitLog)

\* a finished run whose first interval failed and whose later interval
\* delivered records
C3_Witness ==
    /\ pc = "done"
    /\ Len(visitLog) >= 2
    /\ visitLog[1].origem = "falha"
    /\ \E n \in 2..Len(visitLog) : visitLog[n].origem = "soap" /\ visitLog[n].cadastros # <<>>
    /\ resultado.cadastros # <<>>

CacheInalterado ==
    /\ DOMAIN cache' = DOMAIN cache
    /\ \A k \in DOMAIN cache : cache'[k] = cache[k]

OrdemDasTentativas ==
    LET A == Attempts(callLog)
        n == Len(callOps)
    IN /\ \A k \in DOMAIN A :
             /\ A[k].round = ((k - 1) \div n) + 1
             /\ A[k].op = callOps[((k - 1) % n) + 1]
             /\ A[k].res = "ok" => k = Len(A) /\ callState = "returned"
       /\ callState = "returned" => Len(A) >= 1 /\ A[Len(A)].res = "ok"

\* C7 as stated: attempts go round by round, primary first then the
\* fallbacks in order, the first success returns at once, and the number of
\* rounds never exceeds the configured max_retries.
C7_RoundsWithinMaxRetries ==
    /\ OrdemDasTentativas
    /\ \A k \in DOMAIN Attempts(callLog) : Attempts(callLog)[k].round <= retry_attempts
    /\ Len(Attempts(callLog)) <= retry_attempts * Len(callOps)

\* C7 amended: attempts go round by round, primary first then the fallbacks
\* in order, the first success returns at once, and the number of rounds
\* never exceeds max(max_retries, 1): a configured value below 1 still
\* gives one round.
C7_RoundsWithinAtLeastOne ==
    /\ OrdemDasTentativas
    /\ \A k \in DOMAIN Attempts(callLog) :
           Attempts(callLog)[k].round <= AoMenosUm(retry_attempts)
    /\ Len(Attempts(callLog)) <= AoMenosUm(retry_attempts) * Len(callOps)

\* a call that failed a whole round and returned on the last fallback of
\* the last round
C7_Witness ==
    /\ callState = "returned"
    /\ retry_attempts = MaxRetries
    /\ callRound = AoMenosUm(retry_attempts)
    /\ callRound >= 2
    /\ callOp = Len(callOps)
    /\ Len(callOps) >= 2

\* C8: _call raises SOAPClientError exactly when every operation name
\* failed in every round; no exception of another type leaves _call; the
\* error raised carries the cause of the last failed attempt.
C8_RaisesIffAllFailed ==
    LET A == Attempts(callLog)
        total == AoMenosUm(retry_attempts) * Len(callOps)
        todasFalharam == Len(A) = total /\ \A k \in DOMAIN A : A[k].res \in Falhas
    IN /\ callState = "raised" =>
             /\ callErro.tipo = "SOAPClientError"
             /\ todasFalharam
             /\ callErro.causa = [tipo |-> A[Len(A)].res, op |-> A[Len(A)].op]
       /\ todasFalharam => callState \in {"sleeping", "raised"}
       /\ callState \in {"idle", "running", "sleeping", "returned"} => callErro = NenhumaExcecao

\* every name failed in every round, the last attempt on invalid XML
C8_Witness ==
    /\ callState = "raised"
    /\ callErro.tipo = "SOAPClientError"
    /\ callErro.causa.tipo = "SOAPClientError"
    /\ callErro.causa.op = callOps[Len(callOps)]
    /\ Len(Attempts(callLog)) >= 4
    /\ \E k \in DOMAIN callLog : callLog[k].res = "AttributeError"

\* C9: the wrapper sleeps only between rounds: every sleep is followed by a
\* further round, so a call that exhausts all R rounds has slept R - 1
\* times when it raises.
C9_SleepOnlyBetweenRounds ==
    callState = "raised" =>
        Len(Sleeps(callLog)) = AoMenosUm(retry_attempts) - 1

\* C10: when the run is ended by an interruption or an exception after at
\* least one record was accumulated, exactly one partial snapshot write of
\* all accumulated records is attempted, tagged interrupted or error, and
\* the result has sucesso = False, the accumulated records, and
\* arquivo_salvo equal to the written file, or None if the write failed.
C10_AbortSalvaParcial ==
    pc = "aborted" =>
        LET a == abortLog[Len(abortLog)]
            doHandler == SelectSeq(saveLog, LAMBDA g : g.sufixo \in {"interrupted", "error"})
        IN /\ Len(abortLog) = 1
           /\ resultado.sucesso = FALSE
           /\ resultado.cadastros = a.cadastros
           /\ \/ a.cadastros = ConcatCadastros(SubSeq(visitLog, 1, idx - 1))
              \/ a.em = "body" /\ a.cadastros = ConcatCadastros(visitLog)
           /\ a.cadastros # <<>> =>
                 /\ Len(doHandler) = 1
                 /\ doHandler[1] = saveLog[Len(saveLog)]
                 /\ doHandler[1].sufixo =
                        (IF a.causa = "KeyboardInterrupt" THEN "interrupted" ELSE "error")
                 /\ doHandler[1].cadastros = a.cadastros
                 /\ resultado.arquivo_salvo = doHandler[1].arquivo
                 /\ doHandler[1].arquivo # NenhumArquivo =>
                        /\ doHandler[1].arquivo.nome = "cadastros_progresso"
                        /\ doHandler[1].arquivo.sufixo = doHandler[1].sufixo
                        /\ doHandler[1].arquivo \in DOMAIN files
                        /\ JsonLoad(files[doHandler[1].arquivo]) = PyList(a.cadastros)

\* a run interrupted after the second interval, with records accumulated
\* and the partial snapshot written
C10_Witness ==
    /\ pc = "aborted"
    /\ abortLog[1].causa = "KeyboardInterrupt"
    /\ Len(abortLog[1].cadastros) >= 2
    /\ resultado.arquivo_salvo = NomeProgresso(now, "interrupted")
    /\ resultado.cadastros = abortLog[1].cadastros

\* the records a snapshot document holds: the list itself, or the list
\* under "cadastros" of an envelope
RegistrosGravados(dados) ==
    IF dados.t = "list" THEN dados.v
    ELSE IF dados.t = "dict" /\ "cadastros" \in DOMAIN dados.v THEN dados.v["cadastros"].v
    ELSE <<>>

\* records accumulated after the first n visited intervals
TotalAte(n) == Len(ConcatCadastros(SubSeq(visitLog, 1, n)))

\* keys of the result the specification lists for every terminal path
CamposResultado ==
    {"sucesso", "cadastros", "total_cadastros", "total_requisicoes", "tempo_execucao",
     "arquivo_salvo"}

\* C11: an interruption or error raised in any state of a run, the
\* computation of the intervals included, ends the run in ABORTED with a
\* structured failure result; no exception leaves extrair_todos_cadastros.
C11_NenhumaExcecaoEscapa ==
    (Parado /\ runs > 0) =>
        /\ pc \in {"done", "aborted"}
        /\ "sucesso" \in DOMAIN resultado

\* C12: on every terminal path, DONE and ABORTED alike, the result holds
\* the success flag, the record list, the total record count, the total
\* request count, the elapsed duration and the snapshot path, which is None
\* only if a snapshot write failed.
C12_ResultadoCompleto ==
    pc \in {"done", "aborted"} =>
        /\ CamposResultado \subseteq DOMAIN resultado
        /\ resultado.total_cadastros = Len(resultado.cadastros)
        /\ resultado.arquivo_salvo = NenhumArquivo =>
               /\ Len(saveLog) >= 1
               /\ saveLog[Len(saveLog)].arquivo = NenhumArquivo

\* C13: whenever the running total of accumulated records reaches or passes
\* a further multiple of save_interval, a partial snapshot of the records
\* accumulated so far is attempted before the next interval is fetched.
C13_SnapshotACadaMultiplo ==
    pc \in {"loop", "done"} =>
        \A n \in 1..Len(visitLog) :
            (TotalAte(n) \div SaveInterval > TotalAte(n - 1) \div SaveInterval) =>
                \E k \in DOMAIN saveLog :
                    /\ saveLog[k].tipo = "parcial"
                    /\ saveLog[k].sufixo = ""
                    /\ Len(saveLog[k].cadastros) = TotalAte(n)

\* C14: every run that reaches DONE attempted the final snapshot write, of
\* exactly the accumulated records with total_cadastros equal to their
\* number, and arquivo_salvo is None only if that write failed.
C14_DoneGravouFinal ==
    pc = "done" =>
        /\ Len(saveLog) >= 1
        /\ LET g == saveLog[Len(saveLog)]
           IN /\ g.tipo = "final"
              /\ g.cadastros = ConcatCadastros(visitLog)
              /\ resultado.arquivo_salvo = g.arquivo
              /\ g.arquivo # NenhumArquivo =>
                    /\ g.arquivo \in DOMAIN files
                    /\ LET dados == JsonLoad(files[g.arquivo])
                       IN /\ dados.v["cadastros"] = PyList(g.cadastros)
                          /\ dados.v["metadados"].v["total_cadastros"] = PyInt(Len(g.cadastros))

\* C15: every snapshot file the orchestrator wrote, partial or final, is an
\* envelope with a metadata part and a record list, and the loader given
\* the file takes exactly the records written to it as its batch.
C15_SnapshotEnvelope ==
    \A f \in DOMAIN files :
        LET dados == CarregarDadosSalvos(files, f)
        IN /\ dados.t = "dict"
           /\ {"metadados", "cadastros"} \subseteq DOMAIN dados.v
           /\ LoteDoArquivo(dados).ok
           /\ LoteDoArquivo(dados).cadastros = RegistrosGravados(dados)

\* C16: a snapshot file is never overwritten: every snapshot write that
\* succeeds creates a file that did not exist, and every file keeps its
\* content.
C16_SnapshotNuncaSobrescrito ==
    [][/\ \A f \in DOMAIN files : f \in DOMAIN files' /\ files'[f] = files[f]
       /\ (Len(saveLog') = Len(saveLog) + 1 /\ saveLog'[Len(saveLog')].arquivo # NenhumArquivo) =>
              saveLog'[Len(saveLog')].arquivo \notin DOMAIN files]_vars

\* a record the loader can store: a mapping with a code that fits the
\* column, whose child lists, where present, are lists
BemFormado(rec) ==
    /\ rec.t = "dict"
    /\ Truthy(DictGet(rec, "codigo_cadastro"))
    /\ CabeNaColuna(DictGet(rec, "codigo_cadastro"))
    /\ \A n \in DOMAIN ChavesFilhas : DictGetOr(rec, ChavesFilhas[n], PyList(<<>>)).t = "list"

\* at most one parent row per code
UmaLinhaPorCodigo(t) ==
    \A r1, r2 \in t.cadastros : r1.codigo_cadastro = r2.codigo_cadastro => r1 = r2

\* C17: after any sequence of loader batches, with codes repeated inside a
\* batch and batches ingested again, the parent table holds at most one row
\* per codigo_cadastro: a record whose code is already stored, committed
\* earlier or inserted earlier in the same batch, is updated and never
\* inserted a second time.
C17_UmaLinhaPorCodigo ==
    /\ UmaLinhaPorCodigo(banco)
    /\ UmaLinhaPorCodigo(sessao.t)
    /\ \A n \in DOMAIN opLog :
          /\ opLog[n].op = "insert" => ~opLog[n].existia
          /\ opLog[n].existia => opLog[n].op = "update"
          /\ opLog[n].op = "update" => Cardinality(opLog[n].linhaDepois) = 1

\* a committed batch, not the first one, that updated a code stored by an
\* earlier batch, inserted a new code and updated that code again
C17_Witness ==
    /\ lpc = "fim"
    /\ lotes >= 2
    /\ retorno.sucesso
    /\ \E n \in DOMAIN opLog :
          opLog[n].op = "update" /\ opLog[n].codigo \in Codigos(antes)
    /\ \E n1, n2 \in DOMAIN opLog :
          /\ n1 < n2
          /\ opLog[n1].op = "insert" /\ opLog[n1].ok
          /\ opLog[n2].op = "update" /\ opLog[n2].codigo = opLog[n1].codigo
          /\ Cardinality({r \in banco.cadastros : r.codigo_cadastro = opLog[n1].codigo}) = 1

\* C18: a batch of n well-formed records with distinct codes, k of them
\* stored before, is reported as inseridos = n - k, atualizados = k and
\* erros = 0, with or without child lists on the records (k = n when the
\* identical batch is run again).
C18_ContagemDoLote ==
    (/\ lpc = "fim"
     /\ Len(lote) >= 1
     /\ \A n \in DOMAIN lote : BemFormado(lote[n])
     /\ \A n, m \in DOMAIN lote :
            n # m => DictGet(lote[n], "codigo_cadastro") # DictGet(lote[m], "codigo_cadastro")) =>
        LET k == Cardinality({n \in DOMAIN lote :
                                  DictGet(lote[n], "codigo_cadastro").v \in Codigos(antes)})
        IN /\ retorno.sucesso
           /\ retorno.inseridos = Len(lote) - k
           /\ retorno.atualizados = k
           /\ retorno.erros = 0

\* C19: when the insert of exactly one record of a batch fails at flush,
\* the loader counts one error, and every other record of the batch, before
\* or after the failing one, is stored when the batch ends.
C19_FalhaIsolada ==
    (/\ lpc = "fim"
     /\ Cardinality({n \in DOMAIN opLog : opLog[n].op = "insert" /\ ~opLog[n].ok}) = 1
     /\ \A n \in DOMAIN lote : CabeNaColuna(DictGet(lote[n], "codigo_cadastro")) => BemFormado(lote[n])) =>
        /\ retorno.erros = 1
        /\ \A n \in DOMAIN lote :
               BemFormado(lote[n]) => DictGet(lote[n], "codigo_cadastro").v \in Codigos(banco)

\* C20: an update changes scalar columns of the parent row only: the child
\* rows of the record are the same set before and after, whatever child
\* lists the incoming record carries, and the row keeps its id and its code.
C20_UpdateNaoTocaFilhos ==
    \A n \in DOMAIN opLog :
        opLog[n].op = "update" =>
            /\ opLog[n].filhosDepois = opLog[n].filhosAntes
            /\ {r.id : r \in opLog[n].linhaDepois} = {r.id : r \in opLog[n].linhaAntes}
            /\ {r.codigo_cadastro : r \in opLog[n].linhaDepois} = {opLog[n].codigo}

\* C21: the error-detail list the loader returns holds at most 10 messages,
\* those of the first ten failures in batch order, while the error counter
\* equals the full number of failed records.
C21_DetalhesLimitados ==
    (lpc = "fim" /\ retorno.sucesso) =>
        /\ Len(retorno.erros_detalhes) <= LimiteErrosSalvos
        /\ retorno.erros_detalhes = Fatia(erros_detalhes, LimiteErrosSalvos)
        /\ retorno.erros = Len(erros_detalhes)

\* C22: the status of every audit row follows from the counters of its run:
\* 'sucesso' exactly when the error count is zero, 'parcial' exactly when
\* there is an error and a record was inserted or updated, 'erro' exactly
\* when there is an error and no record was inserted or updated; the
\* counters of the row are those of the run that wrote it.
C22_StatusDoLog ==
    /\ \A n \in DOMAIN banco.logs :
          LET r == banco.logs[n]
              feitos == r.registros_inseridos + r.registros_atualizados
          IN /\ r.status \in {"sucesso", "parcial", "erro"}
             /\ r.status = "sucesso" <=> r.registros_erro = 0
             /\ r.status = "parcial" <=> (r.registros_erro > 0 /\ feitos > 0)
             /\ r.status = "erro" <=> (r.registros_erro > 0 /\ feitos = 0)
    /\ (lpc = "fim" /\ retorno.sucesso) =>
          LET r == banco.logs[Len(banco.logs)]
          IN /\ r.registros_erro = contagem.erros
             /\ r.registros_inseridos = contagem.inseridos
             /\ r.registros_atualizados = contagem.atualizados

\* three committed runs left the three statuses in the audit table, the
\* partial one with updates and errors but no insert
C22_Witness ==
    /\ lpc = "fim"
    /\ {banco.logs[n].status : n \in DOMAIN banco.logs} = {"sucesso", "parcial", "erro"}
    /\ \E n \in DOMAIN banco.logs :
          /\ banco.logs[n].status = "parcial"
          /\ banco.logs[n].registros_inseridos = 0
          /\ banco.logs[n].registros_atualizados > 0

\* C23: a loader invocation is atomic.  While the loop runs the store is
\* not written.  When an exception reaches the session context (the commit
\* raises in a transaction that a failed flush rolled back) the store is
\* left exactly as it was before the invocation, without an audit row, and
\* the result has sucesso = False; when the loop completes without it, all
\* the changes the session holds are stored together and the result has
\* sucesso = True.  An invocation that never opens a session leaves the
\* store alone.
C23_InvocacaoAtomica ==
    [][/\ lpc' = "loop" => banco' = banco /\ banco' = antes'
       /\ (lpc = "loop" /\ lpc' = "fim" /\ ~sessao.ativa) =>
             /\ banco' = banco
             /\ banco' = antes
             /\ ~retorno'.sucesso
       /\ (lpc = "loop" /\ lpc' = "fim" /\ sessao.ativa) =>
             /\ banco'.cadastros = sessao.t.cadastros
             /\ banco'.filhos = sessao.t.filhos
             /\ retorno'.sucesso
       /\ (lpc # "loop" /\ lpc' = "fim") => banco' = banco /\ ~retorno'.sucesso]_vars

\* a batch, not the first one, that inserted a record and then lost the
\* transaction: the store holds what the earlier batches committed and
\* nothing of this one
C23_Witness ==
    /\ lpc = "fim"
    /\ lotes >= 2
    /\ ~retorno.sucesso
    /\ "inseridos" \in DOMAIN retorno
    /\ retorno.inseridos >= 1
    /\ banco = antes
    /\ banco.cadastros # {}
    /\ \E n \in DOMAIN opLog :
          /\ opLog[n].op = "insert" /\ opLog[n].ok
          /\ opLog[n].codigo \notin Codigos(banco)

\* C24: every ingestion run that processed a batch leaves exactly one audit
\* row, whose total, inserted, updated and errored counts are those of the
\* result the run returns, and the audit rows of earlier runs are kept as
\* they were.
C24_UmaLinhaDeLogPorLote ==
    (lpc = "fim" /\ "total_registros" \in DOMAIN retorno) =>
        /\ Len(banco.logs) = Len(antes.logs) + 1
        /\ SubSeq(banco.logs, 1, Len(antes.logs)) = antes.logs
        /\ LET r == banco.logs[Len(banco.logs)]
           IN /\ r.total_registros = retorno.total_registros
              /\ r.registros_inseridos = retorno.inseridos
              /\ r.registros_atualizados = retorno.atualizados
              /\ r.registros_erro = retorno.erros

\* C30: whenever the batch loader returns a success result every record of
\* the batch was counted exactly once: inseridos + atualizados + erros =
\* total_registros, for any mix of new records, stored records, records
\* without a code and records whose insert or update fails; during the loop
\* the three counters add up to the number of records visited.
C30_CadaRegistroContadoUmaVez ==
    /\ lpc = "loop" =>
          contagem.inseridos + contagem.atualizados + contagem.erros = indice - 1
    /\ (lpc = "fim" /\ retorno.sucesso) =>
          /\ retorno.total_registros = Len(lote)
          /\ retorno.inseridos + retorno.atualizados + retorno.erros = retorno.total_registros

\* a success result of a batch that mixed a record without a code, an entry
\* that is no mapping, an insert, a failed insert and an update
C30_Witness ==
    /\ lpc = "fim"
    /\ retorno.sucesso
    /\ retorno.inseridos >= 1
    /\ retorno.atualizados >= 1
    /\ retorno.erros >= 3
    /\ \E n \in DOMAIN opLog : opLog[n].op = "sem codigo"
    /\ \E n \in DOMAIN erros_detalhes : erros_detalhes[n].msg = "Erro ao inserir"
    /\ \E n \in DOMAIN erros_detalhes : erros_detalhes[n].msg = "Erro no registro"

\* C25: when the fetch of one module fails for a record, the data of the
\* modules fetched successfully for that record is still returned and the
\* fetches of the remaining modules are still made.
C25_ModulosIsolados ==
    (completo.pc = "fim" /\ Truthy(completo.principal)) =>
        /\ {MetodoDoModulo(Modulos[n]) : n \in DOMAIN Modulos} \cap MetodosDoCliente
               \subseteq {MetodoDoModulo(completo.chamadas[n]) : n \in DOMAIN completo.chamadas}
        /\ completo.retorno.t = "cadastro"
        /\ \A n \in DOMAIN completo.dados :
               completo.retorno.v.relacionados[Modulos[n]] = completo.dados[n]

\* a text of the form DD/MM/YYYY or DD/MM/YYYY HH:MM:SS
PadraoBR(t) == Casa(t, "dd/dd/dddd") \/ Casa(t, "dd/dd/dddd dd:dd:dd")

\* the fields of such a text rearranged as YYYY-MM-DD[ HH:MM:SS]
IsoEsperado(t) ==
    SubSeq(t, 7, 10) \o "-" \o SubSeq(t, 4, 5) \o "-" \o SubSeq(t, 1, 2) \o SubSeq(t, 11, Len(t))

\* such a text names a day of the calendar and a time of the day
DataValida(t) ==
    /\ IntDe(t, 7, 4) >= 1
    /\ IntDe(t, 4, 2) \in 1..12
    /\ IntDe(t, 1, 2) \in 1..DiasDoMes(IntDe(t, 7, 4), IntDe(t, 4, 2))
    /\ Len(t) = 19 => (IntDe(t, 12, 2) < 24 /\ IntDe(t, 15, 2) < 60 /\ IntDe(t, 18, 2) < 60)

\* the value a leaf has in the returned tree: as the claim states it, and
\* with the text trimmed and only real dates replaced
FolhaOriginal(text) == IF PadraoBR(text) THEN IsoEsperado(text) ELSE text
FolhaEmendada(text) ==
    LET t == Strip(text)
    IN IF PadraoBR(t) /\ DataValida(t) THEN IsoEsperado(t) ELSE t

\* obj is the tree of elem with every leaf as expected
RECURSIVE Corresponde(_, _, _)
Corresponde(elem, obj, emendada) ==
    IF elem.filhos = <<>>
    THEN /\ obj.t = "str"
         /\ obj.v = (IF emendada THEN FolhaEmendada(elem.text) ELSE FolhaOriginal(elem.text))
    ELSE /\ obj.t = "dict"
         /\ DOMAIN obj.v = {elem.filhos[i].tag : i \in DOMAIN elem.filhos}
         /\ \A k \in DOMAIN obj.v :
               LET cs == FilhosCom(elem, k)
               IN IF Len(cs) = 1 THEN Corresponde(cs[1], obj.v[k], emendada)
                  ELSE /\ obj.v[k].t = "list"
                       /\ Len(obj.v[k].v) = Len(cs)
                       /\ \A i \in DOMAIN cs : Corresponde(cs[i], obj.v[k].v[i], emendada)

\* the element whose content a call returns: the payload of a return
\* wrapper when there is one
Desembrulhado(elem) ==
    LET rs == FilhosCom(elem, "return")
    IN IF Len(rs) = 1 /\ rs[1].filhos # <<>> THEN rs[1] ELSE elem

\* C26 as stated: in the tree a successful call returns, every string leaf
\* that matched DD/MM/YYYY or DD/MM/YYYY HH:MM:SS on the wire is replaced by
\* YYYY-MM-DD or YYYY-MM-DD HH:MM:SS, every other string leaf is unchanged,
\* and a second normalization changes nothing.
C26_TodaDataConvertida ==
    puro.f = "_call" =>
        /\ Corresponde(Desembrulhado(puro.x), puro.y, FALSE)
        /\ NormalizeObj(puro.y) = puro.y

\* C26 amended: every leaf of the returned tree is the wire text trimmed of
\* surrounding whitespace, replaced by YYYY-MM-DD or YYYY-MM-DD HH:MM:SS when
\* the trimmed text has the form DD/MM/YYYY or DD/MM/YYYY HH:MM:SS and names a
\* real calendar date and time, and left as trimmed otherwise (a text of
\* that form that is no real date included); a second normalization
\* changes nothing.
C26_DatasReaisConvertidas ==
    puro.f = "_call" =>
        /\ Corresponde(Desembrulhado(puro.x), puro.y, TRUE)
        /\ NormalizeObj(puro.y) = puro.y

\* a response with a repeated element: a real date and a text of the date
\* form that is no date, side by side
C26_Witness ==
    /\ puro.f = "_call"
    /\ puro.x = Elem("resposta", "", <<Elem("data", "01/02/2023", <<>>), Elem("obs", "31/02/2023", <<>>),
                                       Elem("data", "31/02/2023", <<>>)>>)
    /\ puro.y = PyDict([k \in {"data", "obs"} |->
                           IF k = "data" THEN PyList(<<PyStr("2023-02-01"), PyStr("31/02/2023")>>)
                           ELSE PyStr("31/02/2023")])

\* the entries of a collection in one of the three shapes of the claim
EntradasDaForma(x) ==
    IF x.t = "list" THEN x.v
    ELSE IF "item" \in DOMAIN x.v
    THEN (IF x.v["item"].t = "list" THEN x.v["item"].v ELSE <<x.v["item"]>>)
    ELSE <<x>>

\* C27: _to_list maps a single mapping, a mapping with an 'item' key and an
\* already-flat sequence to a flat sequence whose elements are all
\* mappings: the mappings among the entries, in order, every other entry
\* dropped, and a single mapping gives the one-element sequence holding it.
C27_SoMapeamentos ==
    (puro.f = "_to_list" /\ puro.x.t \in {"list", "dict"}) =>
        /\ \A n \in DOMAIN puro.y.v : puro.y.v[n].t = "dict"
        /\ puro.y.v = SelectSeq(EntradasDaForma(puro.x), LAMBDA e : e.t = "dict")

\* a text that writes a decimal number, [sign]digits[.digits], and the
\* integer part of the number
TextoDecimal(s) ==
    LET t == Strip(s)
        negativo == Len(t) > 0 /\ Ch(t, 1) = "-"
        corpo == IF Len(t) > 0 /\ Ch(t, 1) \in {"+", "-"} THEN SubSeq(t, 2, Len(t)) ELSE t
        pontos == {i \in 1..Len(corpo) : Ch(corpo, i) = "."}
        p == IF pontos = {} THEN Len(corpo) + 1 ELSE Menor(pontos)
        inteira == SubSeq(corpo, 1, p - 1)
        fracao == SubSeq(corpo, p + 1, Len(corpo))
        ok == /\ Cardinality(pontos) <= 1
              /\ Len(inteira) + Len(fracao) > 0
              /\ Len(inteira) > 0 => DigitosComSublinhado(inteira)
              /\ Len(fracao) > 0 => DigitosComSublinhado(fracao)
    IN [ok |-> ok,
        n |-> IF ~ok THEN 0
              ELSE IF negativo THEN 0 - ValorDe(inteira) ELSE ValorDe(inteira)]

\* C28: normalize_int_field never raises: an integer is returned as is, a
\* float or a float-like string such as '12.7' is truncated to its integer
\* part, and any value that cannot be parsed yields None.
C28_TruncaSemLevantar ==
    puro.f = "normalize_int_field" =>
        /\ puro.y.t \in {"int", "none"}
        /\ puro.x.t = "int" => (puro.y.t = "int" /\ puro.y.v = puro.x.v)
        /\ puro.x.t = "float" => (puro.y.t = "int" /\ puro.y.v = Truncar(puro.x.v))
        /\ puro.x.t = "str" =>
              IF TextoDecimal(puro.x.v).ok
              THEN puro.y.t = "int" /\ puro.y.v = TextoDecimal(puro.x.v).n
              ELSE puro.y.t = "none"
        /\ puro.x.t \notin {"int", "float", "str"} => puro.y.t = "none"

\* the maximal runs of integers missing between the smallest and the
\* largest of a non-empty set of codes, as pairs <<first, last>>
CorridasAusentes(S) ==
    LET faltam == {n \in Menor(S)..(0 - Menor({0 - c : c \in S})) : n \notin S}
    IN {r \in faltam \X faltam :
           /\ r[1] <= r[2]
           /\ \A n \in r[1]..r[2] : n \in faltam
           /\ (r[1] - 1) \notin faltam
           /\ (r[2] + 1) \notin faltam}

\* C29: for every list of integer codes the gap analysis reports exactly
\* the maximal runs of integers missing between the smallest and the
\* largest code, each as (first missing, last missing, size), counts them
\* all in total_lacunas and lists the ten largest by size descending; for
\* the codes 1, 2, 3, 7, 8, 10 the gaps are (4, 6, 3) then (9, 9, 1).
C29_LacunasExatas ==
    puro.f = "_analisar_lacunas_codigos" =>
        LET S == {puro.x[i] : i \in DOMAIN puro.x}
            corridas == IF S = {} THEN {} ELSE CorridasAusentes(S)
            lista == puro.y.maiores_lacunas
            listadas == {<<lista[n].inicio, lista[n].fim>> : n \in DOMAIN lista}
        IN /\ puro.y.total_lacunas = Cardinality(corridas)
           /\ Len(lista) = (IF Cardinality(corridas) < 10 THEN Cardinality(corridas) ELSE 10)
           /\ listadas \subseteq corridas
           /\ Cardinality(listadas) = Len(lista)
           /\ \A n \in DOMAIN lista : lista[n].tamanho = lista[n].fim - lista[n].inicio + 1
           /\ \A n, k \in DOMAIN lista : n < k => lista[n].tamanho >= lista[k].tamanho
           /\ \A r \in corridas \ listadas, n \in DOMAIN lista :
                  r[2] - r[1] + 1 <= lista[n].tamanho
           /\ puro.x = <<1, 2, 3, 7, 8, 10>> =>
                  lista = <<[inicio |-> 4, fim |-> 6, tamanho |-> 3],
                            [inicio |-> 9, fim |-> 9, tamanho |-> 1]>>

\* the analysis of a list with thirteen gaps, given out of order: the ten
\* it lists leave out three gaps no larger than any listed one
C29_Witness ==
    /\ puro.f = "_analisar_lacunas_codigos"
    /\ puro.x = <<40, 1, 3, 6, 8, 11, 13, 16, 18, 21, 23, 26, 28, 31>>
    /\ puro.y.total_lacunas = 13
    /\ Len(puro.y.maiores_lacunas) = 10
    /\ puro.y.maiores_lacunas[1] = [inicio |-> 32, fim |-> 39, tamanho |-> 8]
    /\ puro.y.maiores_lacunas[2] = [inicio |-> 4, fim |-> 5, tamanho |-> 2]

====
